---- MODULE Spec2Model ----
(***************************************************************************)
(* Slidev export: the asynchronous video-export job service                *)
(* (createExportApiPlugin), the MP4 recorder (genPageMp4), the PNG and PDF *)
(* generators of exportSlides, the PDF's table of contents, and the export *)
(* page's client of the job service.                                       *)
(*                                                                         *)
(* JavaScript strings are sequences of one-character strings.  An optional *)
(* field that is undefined is a field absent from the record.  Times are   *)
(* milliseconds, as Date.now() returns them.                                *)
(***************************************************************************)
EXTENDS Integers, Sequences, FiniteSets, TLC

VARIABLES
    now,              \* Date.now(): the wall clock, in ms
    videoExportJobs,  \* the Map's entries: jobId -> VideoExportJob
    jobOrder,         \* the Map's insertion order (ids), which listJobs iterates
    jobTasks,         \* the background task of each POST: its closure and position
    pendingPosts,     \* POST requests swept and awaiting getBodyJson(req)
    res,              \* the response given at this instant, to the request handled last
    stored,           \* history: every record ever stored under each job id, in order
    firstGet,         \* history: the first GET /<id> answer given for each completed job
    rec,              \* the MP4 recorder (genPageMp4): its locals and position
    processExitCode,  \* process.exitCode of the Node process (0 while undefined)
    exp,              \* a PNG or PDF export (exportSlides): its locals, page and files
    client,           \* the export page in the browser: its refs, localStorage and fetches
    calc              \* a function under examination: its argument and results

jobVars == <<videoExportJobs, jobOrder, jobTasks, pendingPosts, res, stored, firstGet>>
otherVars == <<processExitCode, exp, client, calc>>
vars == <<now, videoExportJobs, jobOrder, jobTasks, pendingPosts, res, stored, firstGet, rec,
          processExitCode, exp, client, calc>>

----------------------------------------------------------------------------
(* Bounds of the model *)

MaxJobs == 2
MaxShortTicks == 1
MaxLongTicks == 1
MaxPending == 1
TotalSlides == 3
MaxClockMs == 3000
MaxTocSlides == 3
MaxTitleLevel == 3
MaxLen == 4
MaxRuns == 2
MaxPolls == 2
MaxExports == 2

----------------------------------------------------------------------------
(* Program constants *)

VIDEO_EXPORT_JOB_TTL_MS == 10 * 60 * 1000

\* The clock advances by one of these amounts between two events.
TickSteps == {1, VIDEO_EXPORT_JOB_TTL_MS}

ShortTicks(t) == t % VIDEO_EXPORT_JOB_TTL_MS

LongTicks(t) == t \div VIDEO_EXPORT_JOB_TTL_MS

Max(a, b) == IF a >= b THEN a ELSE b

Min(a, b) == IF a <= b THEN a ELSE b

----------------------------------------------------------------------------
(* Strings *)

Digits == {"0", "1", "2", "3", "4", "5", "6", "7", "8", "9"}

Lower == {"a", "b", "c", "d", "e", "f", "g", "h", "i", "j", "k", "l", "m",
          "n", "o", "p", "q", "r", "s", "t", "u", "v", "w", "x", "y", "z"}

Upper == {"A", "B", "C", "D", "E", "F", "G", "H", "I", "J", "K", "L", "M",
          "N", "O", "P", "Q", "R", "S", "T", "U", "V", "W", "X", "Y", "Z"}

\* \w of a JavaScript regular expression
WordChars == Digits \cup Lower \cup Upper \cup {"_"}

\* \s of a JavaScript regular expression, as far as the inputs here have it
WhiteSpace == {" ", "\t", "\n"}

RECURSIVE TrimStart(_)
TrimStart(s) ==
    IF s # <<>> /\ Head(s) \in WhiteSpace THEN TrimStart(Tail(s)) ELSE s

RECURSIVE TrimEnd(_)
TrimEnd(s) ==
    IF s # <<>> /\ s[Len(s)] \in WhiteSpace
    THEN TrimEnd(SubSeq(s, 1, Len(s) - 1))
    ELSE s

\* String.prototype.trim
Trim(s) == TrimEnd(TrimStart(s))

\* .replace(/[^\w.-]+/g, '-'): each maximal run of other characters becomes one "-"
RECURSIVE ReplaceOtherRuns(_)
ReplaceOtherRuns(s) ==
    IF s = <<>> THEN <<>>
    ELSE IF Head(s) \in WordChars \cup {".", "-"}
         THEN <<Head(s)>> \o ReplaceOtherRuns(Tail(s))
         ELSE IF Len(s) > 1 /\ s[2] \notin WordChars \cup {".", "-"}
              THEN ReplaceOtherRuns(Tail(s))
              ELSE <<"-">> \o ReplaceOtherRuns(Tail(s))

\* .replace(/-+/g, '-')
RECURSIVE CollapseDashes(_)
CollapseDashes(s) ==
    IF s = <<>> THEN <<>>
    ELSE IF Head(s) = "-" /\ Len(s) > 1 /\ s[2] = "-"
         THEN CollapseDashes(Tail(s))
         ELSE <<Head(s)>> \o CollapseDashes(Tail(s))

\* .replace(/^-|-$/g, ''): one "-" off the start, and one off the end of what is left
StripEdgeDashes(s) ==
    LET a == IF s # <<>> /\ Head(s) = "-" THEN Tail(s) ELSE s
    IN  IF a # <<>> /\ a[Len(a)] = "-" THEN SubSeq(a, 1, Len(a) - 1) ELSE a

\* The edge dashes stripped before the runs of dashes are collapsed.
sanitizePartStrippingFirst(value) ==
    CollapseDashes(StripEdgeDashes(ReplaceOtherRuns(Trim(value))))

sanitizePart(value) ==
    StripEdgeDashes(CollapseDashes(ReplaceOtherRuns(Trim(value))))

DigitValue(c) ==
    CASE c = "0" -> 0 [] c = "1" -> 1 [] c = "2" -> 2 [] c = "3" -> 3
      [] c = "4" -> 4 [] c = "5" -> 5 [] c = "6" -> 6 [] c = "7" -> 7
      [] c = "8" -> 8 [] c = "9" -> 9

IsDigits(s) == s # <<>> /\ \A i \in 1..Len(s) : s[i] \in Digits

\* Number() of a string of digits
RECURSIVE NumberOf(_)
NumberOf(s) ==
    IF s = <<>> THEN 0
    ELSE 10 * NumberOf(SubSeq(s, 1, Len(s) - 1)) + DigitValue(s[Len(s)])

----------------------------------------------------------------------------
(* The request payloads and what the pipeline makes of them *)

Str(chars) == [t |-> "string", v |-> chars]

Num(n) == [t |-> "number", v |-> n]

Has(r, f) == f \in DOMAIN r

IsString(r, f) == Has(r, f) /\ r[f].t = "string"

\* Number.isFinite(payload.<f>): a JSON number is finite
IsFiniteNumber(r, f) == Has(r, f) /\ r[f].t = "number"

EmptyObject == <<>>

\* What getBodyJson(req) resolves to, or that it rejects.
BadJsonBody == [json |-> FALSE]

ValidBody ==
    [json |-> TRUE, object |-> TRUE,
     value |-> [range |-> Str(<<"1", "-", "2">>), videoFps |-> Num(30),
                videoSize |-> Str(<<"2", "x", "1">>)]]

BadSizeBody ==
    [json |-> TRUE, object |-> TRUE, value |-> [videoSize |-> Str(<<"2", "x">>)]]

BadFpsBody ==
    [json |-> TRUE, object |-> TRUE, value |-> [videoFps |-> Num(61)]]

NonContiguousBody ==
    [json |-> TRUE, object |-> TRUE, value |-> [range |-> Str(<<" ", "1", ",", "3">>)]]

NonStringRangeBody ==
    [json |-> TRUE, object |-> TRUE, value |-> [range |-> Num(5)]]

NonObjectBody == [json |-> TRUE, object |-> FALSE]

Bodies == {BadJsonBody, ValidBody, BadSizeBody, BadFpsBody, NonContiguousBody,
           NonStringRangeBody, NonObjectBody}

\* The bodies posted where the claim is about a job's life, not about its input.
LifecycleBodies == {BadJsonBody, ValidBody, BadSizeBody}

\* rawPayload && typeof rawPayload === 'object' ? rawPayload : {}
PayloadOf(body) == IF body.object THEN body.value ELSE EmptyObject

\* server.httpServer.address().port, or undefined
Ports == {"none", "3030"}

getServerPort(port) == port # "none"

parseVideoSize(value) ==
    IF value = <<>> THEN [throws |-> FALSE, defined |-> FALSE]
    ELSE IF \E i \in 2..(Len(value) - 1) :
                /\ value[i] \in {"x", "X"}
                /\ IsDigits(SubSeq(value, 1, i - 1))
                /\ IsDigits(SubSeq(value, i + 1, Len(value)))
         THEN LET i == CHOOSE i \in 2..(Len(value) - 1) : value[i] \in {"x", "X"}
                  width == NumberOf(SubSeq(value, 1, i - 1))
                  height == NumberOf(SubSeq(value, i + 1, Len(value)))
              IN  IF width <= 0 \/ height <= 0
                  THEN [throws |-> TRUE]
                  ELSE [throws |-> FALSE, defined |-> TRUE,
                        width |-> width, height |-> height]
         ELSE [throws |-> TRUE]

\* parseRangeString(total, range) of @slidev/parser, on the ranges used here
parseRangeString(total, range) ==
    CASE range = <<>> -> [i \in 1..total |-> i]
      [] range = <<"1", "-", "2">> -> <<1, 2>>
      [] range = <<"1", ",", "3">> -> <<1, 3>>
      [] OTHER -> <<>>

isContiguousRange(pages) ==
    \A index \in 1..Len(pages) : index = 1 \/ pages[index] = pages[index - 1] + 1

\* The ExportArgs the POST handler builds from the payload.
ExportArgsOf(payload) ==
    (IF IsFiniteNumber(payload, "videoInterval")
     THEN [videoInterval |-> payload.videoInterval.v] ELSE <<>>)
    @@ (IF IsFiniteNumber(payload, "videoFps")
        THEN [videoFps |-> payload.videoFps.v] ELSE <<>>)
    @@ (IF IsString(payload, "videoSize")
        THEN [videoSize |-> payload.videoSize.v] ELSE <<>>)
    @@ (IF IsString(payload, "range") /\ Trim(payload.range.v) # <<>>
        THEN [range |-> Trim(payload.range.v)] ELSE <<>>)
    @@ [format |-> "mp4"]

\* The error the pipeline raises on its input before it launches the encoder:
\* getExportOptions (parseVideoSize), then genPageMp4's preconditions.  "none"
\* when the input passes.
PipelineInputError(args) ==
    LET videoFps == IF Has(args, "videoFps") THEN args.videoFps ELSE 30
        videoInterval == IF Has(args, "videoInterval") THEN args.videoInterval ELSE 2000
        pages == parseRangeString(TotalSlides,
                                  IF Has(args, "range") THEN args.range ELSE <<>>)
    IN  CASE parseVideoSize(IF Has(args, "videoSize") THEN args.videoSize ELSE <<>>).throws
               -> "Invalid --video-size"
          [] OTHER ->
             CASE videoFps < 1 \/ videoFps > 60 -> "Invalid video fps"
               [] OTHER ->
                  CASE videoInterval < 0 -> "Invalid video interval"
                    [] OTHER ->
                       IF isContiguousRange(pages) THEN "none"
                       ELSE "requires a contiguous --range"

----------------------------------------------------------------------------
(* Job ids and output files *)

\* randomUUID(): a UUID is its first 8 characters and its other 28.
Uuids == {<<"aaaaaaaa", "1">>, <<"aaaaaaaa", "2">>, <<"bbbbbbbb", "1">>}

\* jobId.slice(0, 8)
Slice8(jobId) == jobId[1]

\* formatTimestamp(): the local time to the second
formatTimestamp(t) == t \div 1000

\* options.data.config.exportFilename
ExportFilename == <<"m", "y", " ", "d">>

getDefaultOutputBase ==
    LET base == sanitizePart(ExportFilename)
    IN  IF base = <<>> THEN <<"s", "l", "i", "d", "e", "v">> ELSE base

\* buildOutputFilename throws a TypeError when range or videoSize is truthy and
\* has no trim method (a number).
BuildThrows(payload) ==
    \/ Has(payload, "range") /\ payload.range.t # "string"
    \/ Has(payload, "videoSize") /\ payload.videoSize.t # "string"
                                 /\ payload.videoSize.v # 0

DefaultSize == <<"1", "9", "2", "0", "x", "1", "0", "8", "0">>

\* The name is its parts joined by "-", with ".mp4" after the last.
buildOutputFilename(payload, jobId, t) ==
    LET range == IF Has(payload, "range") THEN Trim(payload.range.v) ELSE <<>>
        size == IF IsString(payload, "videoSize") /\ payload.videoSize.v # <<>>
                THEN sanitizePart(payload.videoSize.v) ELSE <<>>
    IN  [outputBase |-> getDefaultOutputBase,
         rangePart |-> sanitizePart(IF range = <<>> THEN <<"a", "l", "l">> ELSE range),
         fpsPart |-> IF IsFiniteNumber(payload, "videoFps")
                     THEN payload.videoFps.v ELSE 30,
         sizePart |-> IF size = <<>> THEN DefaultSize ELSE size,
         timestamp |-> formatTimestamp(t),
         shortJobId |-> Slice8(jobId)]

\* resolve(options.userRoot, filename)
ResolvePath(filename) == [dir |-> "userRoot", name |-> filename]

basename(file) == file.name

----------------------------------------------------------------------------
(* The job registry *)

JobStatus == {"running", "done", "error"}

DownloadUrlOf(jobId) == <<"/__slidev/export/video/", jobId, "/download">>

\* resolveJobResponse with the download link given to every job that has ended.
resolveJobResponseUrlWhenEnded(job, jobId, t) ==
    LET resolvedDurationMs ==
            IF job.status = "running"
            THEN Max(0, t - job.startedAt)
            ELSE IF Has(job, "durationMs")
                 THEN job.durationMs
                 ELSE Max(0, (IF Has(job, "completedAt") THEN job.completedAt ELSE t)
                             - job.startedAt)
    IN  (IF job.status # "running"
         THEN [downloadUrl |-> DownloadUrlOf(jobId)] ELSE <<>>)
        @@ (IF Has(job, "file") THEN [filename |-> basename(job.file)] ELSE <<>>)
        @@ [durationMs |-> resolvedDurationMs]
        @@ job
        @@ [jobId |-> jobId]

\* resolveJobResponse with the duration always derived from the clock.
resolveJobResponseLiveDuration(job, jobId, t) ==
    (IF job.status = "done"
     THEN [downloadUrl |-> DownloadUrlOf(jobId)] ELSE <<>>)
    @@ (IF Has(job, "file") THEN [filename |-> basename(job.file)] ELSE <<>>)
    @@ [durationMs |-> Max(0, t - job.startedAt)]
    @@ job
    @@ [jobId |-> jobId]

\* Both callers pass the job's id.
resolveJobResponse(job, jobId, t) ==
    LET resolvedDurationMs ==
            IF job.status = "running"
            THEN Max(0, t - job.startedAt)
            ELSE IF Has(job, "durationMs")
                 THEN job.durationMs
                 ELSE Max(0, (IF Has(job, "completedAt") THEN job.completedAt ELSE t)
                             - job.startedAt)
    IN  (IF job.status = "done"
         THEN [downloadUrl |-> DownloadUrlOf(jobId)] ELSE <<>>)
        @@ (IF Has(job, "file") THEN [filename |-> basename(job.file)] ELSE <<>>)
        @@ [durationMs |-> resolvedDurationMs]
        @@ job
        @@ [jobId |-> jobId]

\* cleanupJobs sweeping only the jobs that are done.
cleanupJobsKeepErrors(jobs, t) ==
    { id \in DOMAIN jobs :
        \/ jobs[id].status # "done"
        \/ LET completedAt == IF Has(jobs[id], "completedAt")
                              THEN jobs[id].completedAt ELSE jobs[id].startedAt
           IN  ~(t - completedAt > VIDEO_EXPORT_JOB_TTL_MS) }

\* cleanupJobs sweeping a job already at TTL.
cleanupJobsAtTtl(jobs, t) ==
    { id \in DOMAIN jobs :
        \/ jobs[id].status = "running"
        \/ LET completedAt == IF Has(jobs[id], "completedAt")
                              THEN jobs[id].completedAt ELSE jobs[id].startedAt
           IN  ~(t - completedAt >= VIDEO_EXPORT_JOB_TTL_MS) }

\* The ids cleanupJobs leaves in the registry at time t.
cleanupJobs(jobs, t) ==
    { id \in DOMAIN jobs :
        \/ jobs[id].status = "running"
        \/ LET completedAt == IF Has(jobs[id], "completedAt")
                              THEN jobs[id].completedAt ELSE jobs[id].startedAt
           IN  ~(t - completedAt > VIDEO_EXPORT_JOB_TTL_MS) }

SweptJobs == [id \in cleanupJobs(videoExportJobs, now) |-> videoExportJobs[id]]

SweptOrder == SelectSeq(jobOrder, LAMBDA id : id \in cleanupJobs(videoExportJobs, now))

\* Array.prototype.sort((a, b) => b.startedAt - a.startedAt): stable, latest first
RECURSIVE SortByStartedAtDesc(_)
SortByStartedAtDesc(list) ==
    IF list = <<>> THEN <<>>
    ELSE LET rest == SortByStartedAtDesc(Tail(list))
             before == SelectSeq(rest, LAMBDA r : r.startedAt > Head(list).startedAt)
             after == SelectSeq(rest, LAMBDA r : ~(r.startedAt > Head(list).startedAt))
         IN  before \o <<Head(list)>> \o after

listJobs(jobs, order, t) ==
    SortByStartedAtDesc([i \in 1..Len(order) |->
                            resolveJobResponse(jobs[order[i]], order[i], t)])

\* Map.prototype.set: a new key goes last, a known key keeps its place.
MapSetOrder(order, id) ==
    IF \E i \in 1..Len(order) : order[i] = id THEN order ELSE Append(order, id)

----------------------------------------------------------------------------
(* The job service: server.middlewares.use(async (req, res, next) => ...) *)

RecIdle == [pc |-> "idle"]

\* No export, no page and no function is under way.
Idle == [pc |-> "idle"]

OthersIdle ==
    /\ processExitCode = 0
    /\ exp = Idle
    /\ client = Idle
    /\ calc = Idle

NoResponse == [kind |-> "none"]

Init ==
    /\ now = 0
    /\ videoExportJobs = <<>>
    /\ jobOrder = <<>>
    /\ jobTasks = <<>>
    /\ pendingPosts = {}
    /\ res = NoResponse
    /\ stored = <<>>
    /\ firstGet = <<>>
    /\ rec = RecIdle
    /\ OthersIdle

\* Time passes between two events; the response just given is in the past.
Tick(d) ==
    /\ ShortTicks(now + d) <= MaxShortTicks
    /\ LongTicks(now + d) <= MaxLongTicks
    /\ now' = now + d
    /\ res' = NoResponse
    /\ UNCHANGED <<videoExportJobs, jobOrder, jobTasks, pendingPosts, stored, firstGet, rec, otherVars>>

\* A request the plugin does not serve (another URL, another method): it is
\* swept like any other and passed on.
RequestOther ==
    /\ videoExportJobs' = SweptJobs
    /\ jobOrder' = SweptOrder
    /\ res' = [kind |-> "next"]
    /\ UNCHANGED <<now, jobTasks, pendingPosts, stored, firstGet, rec, otherVars>>

\* GET /export/video/jobs
RequestListJobs ==
    /\ videoExportJobs' = SweptJobs
    /\ jobOrder' = SweptOrder
    /\ res' = [kind |-> "jobs", code |-> 200,
               body |-> [jobs |-> listJobs(SweptJobs, SweptOrder, now)]]
    /\ UNCHANGED <<now, jobTasks, pendingPosts, stored, firstGet, rec, otherVars>>

\* POST /export/video, up to its await of getBodyJson(req): no response yet (code 0)
RequestPost(body) ==
    /\ Cardinality(pendingPosts) < MaxPending
    /\ Cardinality(DOMAIN jobTasks) + Cardinality(pendingPosts)
         < Min(MaxJobs, Cardinality(Uuids))
    /\ videoExportJobs' = SweptJobs
    /\ jobOrder' = SweptOrder
    /\ pendingPosts' = pendingPosts \cup {body}
    /\ res' = [kind |-> "post", req |-> body, code |-> 0]
    /\ UNCHANGED <<now, jobTasks, stored, firstGet, rec, otherVars>>

\* The record the POST handler registers.
NewJob(output, startedAt) ==
    [status |-> "running", file |-> output, startedAt |-> startedAt]

\* POST /export/video, from the body's arrival to the response
HandlePost(body) ==
    /\ body \in pendingPosts
    /\ pendingPosts' = pendingPosts \ {body}
    /\ \E port \in Ports :
         IF ~body.json
         THEN /\ res' = [kind |-> "post", req |-> body, code |-> 400,
                         body |-> [error |-> "Unexpected token in JSON"]]
              /\ UNCHANGED <<videoExportJobs, jobOrder, jobTasks, stored>>
         ELSE IF ~getServerPort(port)
         THEN /\ res' = [kind |-> "post", req |-> body, code |-> 400,
                         body |-> [error |-> "Unable to resolve dev server port for exporting"]]
              /\ UNCHANGED <<videoExportJobs, jobOrder, jobTasks, stored>>
         ELSE IF BuildThrows(PayloadOf(body))
         THEN /\ res' = [kind |-> "post", req |-> body, code |-> 400,
                         body |-> [error |-> "trim is not a function"]]
              /\ UNCHANGED <<videoExportJobs, jobOrder, jobTasks, stored>>
         ELSE \E id \in Uuids \ DOMAIN jobTasks :
                LET payload == PayloadOf(body)
                    filename == buildOutputFilename(payload, id, now)
                    output == ResolvePath(filename)
                    startedAt == now
                    job == NewJob(output, startedAt)
                IN  /\ videoExportJobs' = (id :> job) @@ videoExportJobs
                    /\ jobOrder' = MapSetOrder(jobOrder, id)
                    /\ jobTasks' = (id :> [args |-> ExportArgsOf(payload),
                                           output |-> output, startedAt |-> startedAt,
                                           pc |-> "running"]) @@ jobTasks
                    /\ stored' = (id :> <<job>>) @@ stored
                    /\ res' = [kind |-> "post", req |-> body, code |-> 200,
                               body |-> [jobId |-> id]]
    /\ UNCHANGED <<now, firstGet, rec, otherVars>>

\* The task's record with the duration's operands swapped.
SettledJobSwappedDuration(task, error, completedAt) ==
    (IF error = "none" THEN [status |-> "done"] ELSE [status |-> "error", error |-> error])
    @@ [file |-> task.output, startedAt |-> task.startedAt, completedAt |-> completedAt,
        durationMs |-> Max(0, task.startedAt - completedAt)]

\* What the task stores when exportSlides resolves (error = "none") or rejects.
SettledJob(task, error, completedAt) ==
    (IF error = "none" THEN [status |-> "done"] ELSE [status |-> "error", error |-> error])
    @@ [file |-> task.output, startedAt |-> task.startedAt, completedAt |-> completedAt,
        durationMs |-> Max(0, completedAt - task.startedAt)]

\* The ways exportSlides can end for these arguments: an input error is raised
\* whenever the input has one; the browser, the page and the encoder may fail or not.
ExportOutcomes(args) ==
    IF PipelineInputError(args) # "none"
    THEN {PipelineInputError(args)}
    ELSE {"none", "Failed to advance from step 1-0"}

\* The background task storing a result again after it has stored one.
JobTaskSettleUnlatched(id) ==
    /\ id \in DOMAIN jobTasks
    /\ Len(stored[id]) < 3
    /\ \E error \in ExportOutcomes(jobTasks[id].args) :
         LET job == SettledJob(jobTasks[id], error, now)
         IN  /\ videoExportJobs' = (id :> job) @@ videoExportJobs
             /\ jobOrder' = MapSetOrder(jobOrder, id)
             /\ stored' = [stored EXCEPT ![id] = Append(@, job)]
    /\ jobTasks' = [jobTasks EXCEPT ![id].pc = "settled"]
    /\ res' = NoResponse
    /\ UNCHANGED <<now, pendingPosts, firstGet, rec, otherVars>>

\* The background task of job id ends: its try block, or its catch.
JobTaskSettle(id) ==
    /\ id \in DOMAIN jobTasks
    /\ jobTasks[id].pc = "running"
    /\ \E error \in ExportOutcomes(jobTasks[id].args) :
         LET job == SettledJob(jobTasks[id], error, now)
         IN  /\ videoExportJobs' = (id :> job) @@ videoExportJobs
             /\ jobOrder' = MapSetOrder(jobOrder, id)
             /\ stored' = [stored EXCEPT ![id] = Append(@, job)]
    /\ jobTasks' = [jobTasks EXCEPT ![id].pc = "settled"]
    /\ res' = NoResponse
    /\ UNCHANGED <<now, pendingPosts, firstGet, rec, otherVars>>

\* GET /export/video/<id>
RequestJob(id) ==
    /\ videoExportJobs' = SweptJobs
    /\ jobOrder' = SweptOrder
    /\ IF id \notin DOMAIN SweptJobs
       THEN /\ res' = [kind |-> "get", id |-> id, code |-> 404,
                       body |-> [error |-> "Export job not found"]]
            /\ UNCHANGED firstGet
       ELSE LET body == resolveJobResponse(SweptJobs[id], id, now)
            IN  /\ res' = [kind |-> "get", id |-> id, code |-> 200,
                           body |-> body]
                /\ firstGet' = IF body.status # "running" /\ id \notin DOMAIN firstGet
                               THEN (id :> [at |-> now, body |-> body]) @@ firstGet
                               ELSE firstGet
    /\ UNCHANGED <<now, jobTasks, pendingPosts, stored, rec, otherVars>>

\* The download handler streaming for every job that has ended.
DownloadReadyWhenEnded(jobs, id) ==
    ~(id \notin DOMAIN jobs \/ jobs[id].status = "running" \/ ~Has(jobs[id], "file"))

\* Whether the download handler streams the file.
DownloadReady(jobs, id) ==
    ~(id \notin DOMAIN jobs \/ jobs[id].status # "done" \/ ~Has(jobs[id], "file"))

\* GET /export/video/<id>/download
RequestDownload(id) ==
    /\ videoExportJobs' = SweptJobs
    /\ jobOrder' = SweptOrder
    /\ res' = IF DownloadReady(SweptJobs, id)
              THEN [kind |-> "download", id |-> id, code |-> 200,
                    contentType |-> "video/mp4",
                    attachment |-> basename(SweptJobs[id].file),
                    stream |-> SweptJobs[id].file]
              ELSE [kind |-> "download", id |-> id, code |-> 404,
                    contentType |-> "application/json",
                    body |-> [error |-> "Export file not ready"]]
    /\ UNCHANGED <<now, jobTasks, pendingPosts, stored, firstGet, rec, otherVars>>

Next ==
    \/ \E d \in TickSteps : Tick(d)
    \/ RequestOther
    \/ RequestListJobs
    \/ \E body \in LifecycleBodies : RequestPost(body)
    \/ \E body \in LifecycleBodies : HandlePost(body)
    \/ \E id \in Uuids : JobTaskSettle(id)
    \/ \E id \in Uuids : RequestJob(id)
    \/ \E id \in Uuids : RequestDownload(id)

Spec == Init /\ [][Next]_vars

\* The same service, posted every kind of body within one second.
NextInput ==
    \/ Tick(1)
    \/ \E body \in Bodies : RequestPost(body)
    \/ \E body \in Bodies : HandlePost(body)
    \/ \E id \in Uuids : JobTaskSettle(id)
    \/ \E id \in Uuids : RequestJob(id)

SpecInput == Init /\ [][NextInput]_vars

----------------------------------------------------------------------------
(* What the history says of a job *)

Last(q) == q[Len(q)]

StatusSeq(id) == [i \in 1..Len(stored[id]) |-> stored[id][i].status]

Created(id) == id \in DOMAIN stored

Completed(id) == Created(id) /\ Last(stored[id]).status # "running"

CompletedAt(id) == Last(stored[id]).completedAt

StartedAt(id) == stored[id][1].startedAt

Registered(id) == id \in DOMAIN videoExportJobs

\* A request was swept at this instant: every kind but a POST whose body has
\* only now arrived (its sweep ran when the request came in).
SweptNow ==
    \/ res.kind \in {"next", "jobs", "get", "download"}
    \/ res.kind = "post" /\ res.code = 0

\* The pipeline rejects the body's input before it launches the encoder.
SyncInvalid(body) ==
    body.json /\ PipelineInputError(ExportArgsOf(PayloadOf(body))) # "none"

----------------------------------------------------------------------------
(* Claims about the job service *)

\* C1: the statuses ever stored under a job id are running alone or running
\* followed by one of done and error; the registry holds the last record stored.
C1_StatusSequence ==
    \A id \in DOMAIN stored :
        /\ StatusSeq(id) \in {<<"running">>, <<"running", "done">>, <<"running", "error">>}
        /\ Registered(id) => videoExportJobs[id] = Last(stored[id])

\* C1 witness: one job ended in error and was swept, another ended done.
C1_Witness ==
    \E i, j \in DOMAIN stored :
        /\ StatusSeq(i) = <<"running", "error">> /\ ~Registered(i)
        /\ StatusSeq(j) = <<"running", "done">> /\ Registered(j)

\* C2 (as claimed): a POST whose input the pipeline rejects synchronously is
\* answered 400, and no job is recorded for it.
C2_SyncInvalidRejected ==
    /\ (res.kind = "post" /\ res.code # 0 /\ SyncInvalid(res.req)) => res.code = 400
    /\ \A id \in DOMAIN jobTasks : PipelineInputError(jobTasks[id].args) = "none"

\* C3: a request swept at an instant more than TTL after a job's completion leaves
\* the job out of the registry, and a GET for it then answers 404 "Export job not
\* found".
C3_ExpiredJobSwept ==
    /\ SweptNow =>
         \A id \in DOMAIN stored :
            (Completed(id) /\ now - CompletedAt(id) > VIDEO_EXPORT_JOB_TTL_MS)
               => ~Registered(id)
    /\ (res.kind = "get" /\ Completed(res.id)
          /\ now - CompletedAt(res.id) > VIDEO_EXPORT_JOB_TTL_MS)
         => res.code = 404 /\ res.body = [error |-> "Export job not found"]

\* C3 witness: a job that answered 200 after its completion now answers 404.
C3_Witness ==
    /\ res.kind = "get" /\ res.code = 404
    /\ Completed(res.id)
    /\ res.id \in DOMAIN firstGet

\* C4: a job that is running, or completed no more than TTL ago, is in the
\* registry; the id a POST answers is registered; a GET for such a job answers 200.
C4_LiveJobKept ==
    /\ \A id \in DOMAIN stored :
          (~Completed(id) \/ now - CompletedAt(id) <= VIDEO_EXPORT_JOB_TTL_MS)
             => Registered(id)
    /\ (res.kind = "post" /\ res.code = 200) => Registered(res.body.jobId)
    /\ (res.kind = "get" /\ Created(res.id)
          /\ (~Completed(res.id) \/ now - CompletedAt(res.id) <= VIDEO_EXPORT_JOB_TTL_MS))
         => res.code = 200

\* C4 witness: a GET answers 200 exactly TTL after the job's completion, while
\* another job has been running for more than TTL.
C4_Witness ==
    /\ res.kind = "get" /\ res.code = 200
    /\ Completed(res.id)
    /\ now - CompletedAt(res.id) = VIDEO_EXPORT_JOB_TTL_MS
    /\ \E j \in DOMAIN stored :
          ~Completed(j) /\ now - StartedAt(j) > VIDEO_EXPORT_JOB_TTL_MS /\ Registered(j)

\* The descriptor has a non-empty downloadUrl exactly when its status is done
\* and it has a file.
DownloadUrlIffDone(d) ==
    (Has(d, "downloadUrl") /\ d.downloadUrl # <<>>)
       <=> (d.status = "done" /\ Has(d, "file"))

\* C5: every descriptor a GET /<id> or the jobs listing returns has a non-empty
\* downloadUrl if and only if its status is done and it has a file.
C5_DownloadUrlIffDone ==
    /\ (res.kind = "get" /\ res.code = 200) => DownloadUrlIffDone(res.body)
    /\ res.kind = "jobs" =>
          \A i \in 1..Len(res.body.jobs) : DownloadUrlIffDone(res.body.jobs[i])

\* C5 witness: a listing with a done job, which has a downloadUrl, and a job in
\* error, which has none.
C5_Witness ==
    /\ res.kind = "jobs"
    /\ \E i, j \in 1..Len(res.body.jobs) :
          /\ res.body.jobs[i].status = "done" /\ Has(res.body.jobs[i], "downloadUrl")
          /\ res.body.jobs[j].status = "error" /\ ~Has(res.body.jobs[j], "downloadUrl")

\* C6: a download streams the file (200, video/mp4) when the job is in the
\* registry, done and has a file, and answers 404 in every other case.
C6_DownloadOnlyWhenDone ==
    res.kind = "download" =>
        IF /\ Created(res.id) /\ Registered(res.id)
           /\ Last(stored[res.id]).status = "done"
           /\ Has(Last(stored[res.id]), "file")
        THEN /\ res.code = 200
             /\ res.contentType = "video/mp4"
             /\ res.stream = Last(stored[res.id]).file
        ELSE res.code = 404

\* C6 witness: a download is refused for a job that was done and has been swept.
C6_Witness ==
    /\ res.kind = "download" /\ res.code = 404
    /\ Completed(res.id) /\ Last(stored[res.id]).status = "done"
    /\ ~Registered(res.id)

\* C7: every GET /<id> answered for a completed job carries the metadata of the
\* first one answered after its completion.
C7_CompletedMetadataStable ==
    (res.kind = "get" /\ res.code = 200 /\ res.body.status # "running")
       => /\ res.id \in DOMAIN firstGet
          /\ res.body = firstGet[res.id].body

\* C7 witness: a second answer for a completed job, later than the first, with
\* another job's completion in between.
C7_Witness ==
    /\ res.kind = "get" /\ res.code = 200 /\ res.body.status # "running"
    /\ res.id \in DOMAIN firstGet
    /\ now > firstGet[res.id].at
    /\ \E j \in DOMAIN stored :
          j # res.id /\ Completed(j) /\ CompletedAt(j) > firstGet[res.id].at

\* The duration a descriptor reports: the time since the start while the job
\* runs, and completedAt - startedAt once it has completed.
DurationAsClaimed(d) ==
    IF d.status = "running"
    THEN d.durationMs = Max(0, now - StartedAt(d.jobId))
    ELSE /\ d.durationMs = CompletedAt(d.jobId) - StartedAt(d.jobId)
         /\ d.durationMs >= 0

\* C8: a running job's durationMs is max(0, now - startedAt); a completed job's
\* is completedAt - startedAt, whatever the time of the request.
C8_DurationDerivedThenPinned ==
    /\ (res.kind = "get" /\ res.code = 200) => DurationAsClaimed(res.body)
    /\ res.kind = "jobs" =>
          \A i \in 1..Len(res.body.jobs) : DurationAsClaimed(res.body.jobs[i])

\* C8 witness: a listing, later than every event it reports, of a running job
\* and of a completed job whose run took time.
C8_Witness ==
    /\ res.kind = "jobs"
    /\ \E i, j \in 1..Len(res.body.jobs) :
          /\ res.body.jobs[i].status = "running" /\ res.body.jobs[i].durationMs > 0
          /\ res.body.jobs[j].status # "running" /\ res.body.jobs[j].durationMs > 0
          /\ now > res.body.jobs[j].completedAt

\* C9 (as claimed): no two jobs are given the same output file.
C9_OutputFilesDistinct ==
    \A i, j \in DOMAIN jobTasks :
        i # j => jobTasks[i].output # jobTasks[j].output

----------------------------------------------------------------------------
(* The MP4 recorder: exportSlides' genPageMp4 *)

\* The deck: clicksTotal of each slide.
DeckClicks == <<1, 0, 0>>

\* --slidev-transition-duration of the page, in ms
PageTransitionMs == 0

\* String(n) of a whole number
RECURSIVE NumeralOf(_)
NumeralOf(n) ==
    LET digit == CHOOSE c \in Digits : DigitValue(c) = n % 10
    IN  IF n < 10 THEN <<digit>> ELSE NumeralOf(n \div 10) \o <<digit>>

\* The export options of a recording, the deck's bridge among them: nextStep()
\* advances the step before it resolves ("advances"), lateMs after it has
\* resolved ("late"), or never ("stuck"), or there is no bridge ("absent").
Mp4Config(fps, interval, scale, pages, timeout, bridge) ==
    [withClicks |-> TRUE, videoFps |-> fps, videoInterval |-> interval,
     videoMotionScale |-> scale, pages |-> pages, timeout |-> timeout, bridge |-> bridge,
     lateMs |-> 0]

\* A motion scale is a JavaScript number: the fraction num/den.
Scale(num, den) == [num |-> num, den |-> den]

\* value * scale, for the values and scales whose product is whole.
Times(value, scale) == (value * scale.num) \div scale.den

\* The machine of a recording: how long a screenshot takes, how long a write
\* waits for 'drain', and how long waitForStepSettled waits past its budget, in ms.
Machines == [shotMs : {20, 80}, drainMs : {0, 15}, overrunMs : {0, 50}]

FastMachine == [shotMs |-> 20, drainMs |-> 0, overrunMs |-> 0]

RecConfigs ==
    { Mp4Config(30, i, s, <<1, 2>>, 30000, "advances") @@ m :
          i \in {0, 100}, s \in {Scale(1, 1), Scale(2, 1)}, m \in Machines }
    \cup
    { Mp4Config(30, 100, Scale(1, 1), pages, 30000, "advances") @@ FastMachine :
          pages \in {<<2>>, <<3>>, <<2, 3>>, <<>>} }
    \cup
    { Mp4Config(30, 100, s, <<1, 2>>, 30000, "advances") @@ FastMachine :
          s \in {Scale(1, 2), Scale(3, 2), Scale(0, 1)} }
    \cup
    { Mp4Config(60, 0, Scale(1, 1), pages, 30000, "advances") @@ FastMachine :
          pages \in {<<1, 2>>, <<1, 2, 3>>} }
    \cup
    { [Mp4Config(30, 0, Scale(1, 1), <<1, 2>>, 1000, "late") EXCEPT !.lateMs = late]
          @@ FastMachine : late \in {100, 2001} }
    \cup
    { Mp4Config(30, 0, Scale(1, 1), <<1, 2>>, 1000, "stuck") @@ FastMachine,
      Mp4Config(30, 0, Scale(1, 1), <<1, 2>>, 30000, "absent") @@ FastMachine,
      Mp4Config(61, 100, Scale(1, 1), <<1, 2>>, 30000, "advances") @@ FastMachine,
      Mp4Config(0, 100, Scale(1, 1), <<1, 2>>, 30000, "advances") @@ FastMachine,
      Mp4Config(30, -1, Scale(1, 1), <<1, 2>>, 30000, "advances") @@ FastMachine,
      Mp4Config(30, 100, Scale(1, 1), <<1, 3>>, 30000, "advances") @@ FastMachine,
      [Mp4Config(30, 100, Scale(1, 1), <<1, 2>>, 30000, "advances")
          EXCEPT !.withClicks = FALSE] @@ FastMachine }

ScreenshotDelays(cfg) == {cfg.shotMs}

WriteDelays(cfg) == {cfg.drainMs}

SettleOverrun(cfg) == {cfg.overrunMs}

\* A page.evaluate takes a millisecond.
EvaluateDelays == {1}

RecStart(cfg) ==
    [pc |-> "start", cfg |-> cfg, ctx |-> "none", error |-> "none",
     captureError |-> "none", thrown |-> "none",
     ffmpeg |-> "none", exitCode |-> -1, ffmpegArgs |-> <<>>, dilated |-> FALSE,
     stdin |-> [writes |-> 0, dropped |-> 0], ended |-> 0,
     startedAt |-> 0, writtenFrames |-> 0, frame |-> "none",
     elapsedMs |-> 0, expectedFrames |-> 0, deadline |-> 0,
     step |-> [no |-> 0, clicks |-> 0], previousStamp |-> <<0, 0>>,
     changeAt |-> 0, dwells |-> 0, dwellKeys |-> <<>>, nextCalls |-> 0,
     writesAtNext |-> 0, transitionDeadline |-> 0, iterationAt |-> 0, observedAt |-> 0,
     errorStep |-> <<0, 0>>, dwellMs |-> -1, dwellFrames |-> 0,
     ffmpegLogs |-> <<>>, message |-> <<>>,
     shots |-> 0, lastWritten |-> 0, needDrain |-> FALSE, nextKeys |-> <<>>,
     job |-> [status |-> "running", error |-> "none", message |-> <<>>]]

InitMp4 ==
    /\ now = 0
    /\ videoExportJobs = <<>>
    /\ jobOrder = <<>>
    /\ jobTasks = <<>>
    /\ pendingPosts = {}
    /\ res = NoResponse
    /\ stored = <<>>
    /\ firstGet = <<>>
    /\ rec \in {RecStart(cfg) : cfg \in RecConfigs}
    /\ OthersIdle

\* parseVideoMotionScale throws unless the scale is a number greater than 0.
parseVideoMotionScale(value) == value.num > 0

\* motionScale > 1
MotionDilates(cfg) == cfg.videoMotionScale.num > cfg.videoMotionScale.den

\* The timeline sped up by whatever the motion scale is.
playbackSpeedupUnclamped(cfg) == cfg.videoMotionScale

playbackSpeedup(cfg) == IF MotionDilates(cfg) THEN cfg.videoMotionScale ELSE Scale(1, 1)

\* The recording started on the deck's first slide.
startSlideNoOfDeck(cfg) == 1

startSlideNo(cfg) == IF Len(cfg.pages) > 0 THEN cfg.pages[1] ELSE 1

\* The range's end taken one slide too far.
endSlideNoPastRange(cfg) ==
    IF Len(cfg.pages) > 0 THEN cfg.pages[Len(cfg.pages)] + 1 ELSE startSlideNo(cfg) + 1

endSlideNo(cfg) == IF Len(cfg.pages) > 0 THEN cfg.pages[Len(cfg.pages)] ELSE startSlideNo(cfg)

\* The checks of the options without the one of the range.
Mp4PreconditionErrorWithoutRange(cfg) ==
    CASE cfg.withClicks = FALSE -> "MP4 export always includes clicks"
      [] OTHER ->
         CASE cfg.videoFps < 1 \/ cfg.videoFps > 60 -> "Invalid video fps"
           [] OTHER ->
              CASE cfg.videoInterval < 0 -> "Invalid video interval"
                [] OTHER ->
                   CASE ~parseVideoMotionScale(cfg.videoMotionScale)
                          -> "Invalid --video-motion-scale"
                     [] OTHER -> "none"

\* The error genPageMp4 raises before it probes for ffmpeg, or "none".
Mp4PreconditionError(cfg) ==
    CASE cfg.withClicks = FALSE -> "MP4 export always includes clicks"
      [] OTHER ->
         CASE cfg.videoFps < 1 \/ cfg.videoFps > 60 -> "Invalid video fps"
           [] OTHER ->
              CASE cfg.videoInterval < 0 -> "Invalid video interval"
                [] OTHER ->
                   CASE ~parseVideoMotionScale(cfg.videoMotionScale)
                          -> "Invalid --video-motion-scale"
                     [] OTHER ->
                        IF isContiguousRange(cfg.pages) THEN "none"
                        ELSE "requires a contiguous --range"

getStepKey(step) == <<step.no, step.clicks>>

\* getStepInfo(): what the bridge reports of the page's step
getStepInfo(step) ==
    [no |-> step.no, clicks |-> step.clicks,
     clicksTotal |-> DeckClicks[step.no],
     hasNext |-> step.clicks < DeckClicks[step.no] \/ step.no < Len(DeckClicks)]

\* The page's step after the bridge's nextStep().
AdvancedStep(step) ==
    IF step.clicks < DeckClicks[step.no]
    THEN [no |-> step.no, clicks |-> step.clicks + 1]
    ELSE IF step.no < Len(DeckClicks)
         THEN [no |-> step.no + 1, clicks |-> 0]
         ELSE step

\* getTransitionSettleBudget(): the page's transition duration is scaled while
\* motion is dilated.
getTransitionSettleBudget(r) ==
    LET transitionMs == IF r.dilated
                        THEN Times(PageTransitionMs, r.cfg.videoMotionScale)
                        ELSE PageTransitionMs
    IN  Max(120, Min(3000, transitionMs + 300))

transitionTimeoutMs(cfg) == Min(10000, Max(2000, cfg.timeout))

\* The frames due after elapsedMs, none being due before the first second's end.
ExpectedFramesFloored(elapsedMs, videoFps) == (elapsedMs * videoFps) \div 1000

\* Math.max(1, Math.floor(elapsedMs * videoFps / 1000))
ExpectedFrames(elapsedMs, videoFps) == Max(1, (elapsedMs * videoFps) \div 1000)

\* An await of the recorder takes d ms.
Pass(d) == now + d <= MaxClockMs /\ now' = now + d

\* genPageMp4's checks of its options
RecCheck ==
    /\ rec.pc = "start"
    /\ rec' = IF Mp4PreconditionError(rec.cfg) = "none"
              THEN [rec EXCEPT !.pc = "probe"]
              ELSE [rec EXCEPT !.pc = "rejected", !.error = Mp4PreconditionError(rec.cfg),
                               !.thrown = Mp4PreconditionError(rec.cfg)]
    /\ UNCHANGED <<now, jobVars, otherVars>>

\* waitForFfmpeg(): ffmpeg -version exits 0, or does not
RecProbeFfmpeg ==
    /\ rec.pc = "probe"
    /\ \E ok \in BOOLEAN :
         rec' = IF ok THEN [rec EXCEPT !.pc = "goPlay"]
                ELSE [rec EXCEPT !.pc = "rejected", !.error = "MP4 export requires ffmpeg",
                                 !.thrown = "MP4 export requires ffmpeg"]
    /\ UNCHANGED <<now, jobVars, otherVars>>

\* goPlay(startSlideNo, 0), then the motion dilation of the page
RecGoPlay ==
    /\ rec.pc = "goPlay"
    /\ \/ \E over \in SettleOverrun(rec.cfg) :
            /\ Pass(getTransitionSettleBudget(rec) + over)
            /\ rec' = [rec EXCEPT !.pc = "spawn",
                                  !.step = [no |-> startSlideNo(rec.cfg), clicks |-> 0],
                                  !.dilated = MotionDilates(rec.cfg)]
       \/ /\ rec' = [rec EXCEPT !.pc = "rejected", !.error = "page.goto: Timeout",
                                  !.thrown = "page.goto: Timeout"]
          /\ UNCHANGED now
    /\ UNCHANGED <<jobVars, otherVars>>

\* The arguments ffmpeg is spawned with, as far as the options decide them.
FfmpegArgs(cfg) ==
    (IF playbackSpeedup(cfg).num > playbackSpeedup(cfg).den
     THEN [setpts |-> playbackSpeedup(cfg)] ELSE <<>>)
    @@ [framerate |-> cfg.videoFps]

\* spawn('ffmpeg', ffmpegArgs)
RecSpawn ==
    /\ rec.pc = "spawn"
    /\ rec' = [rec EXCEPT !.pc = "targetWait", !.ffmpeg = "running",
                          !.ffmpegArgs = FfmpegArgs(rec.cfg)]
    /\ UNCHANGED <<now, jobVars, otherVars>>

\* target.waitFor(), the clip rectangle, startedAt = Date.now(); a rejection
\* of either await leaves genPageMp4 at once, there being no try block around them
RecTargetWait ==
    /\ rec.pc = "targetWait"
    /\ \/ \E d \in EvaluateDelays :
            /\ Pass(d)
            /\ rec' = [rec EXCEPT !.pc = "capture", !.ctx = "initial",
                                  !.startedAt = now + d]
       \/ /\ rec' = [rec EXCEPT !.pc = "aborted", !.error = "locator.waitFor: Timeout",
                                  !.thrown = "locator.waitFor: Timeout"]
          /\ UNCHANGED now
    /\ UNCHANGED <<jobVars, otherVars>>

\* captureFrame(): a frame captured while the last one is unwritten is a frame dropped
RecCapture ==
    /\ rec.pc = "capture"
    /\ \E d \in ScreenshotDelays(rec.cfg) : Pass(d)
    /\ rec' = [rec EXCEPT !.pc = "write", !.frame = "captured", !.shots = @ + 1,
                          !.stdin.dropped = IF rec.frame = "captured" THEN @ + 1 ELSE @,
                          !.dwellFrames = IF rec.ctx = "dwell" THEN @ + 1 ELSE @]
    /\ UNCHANGED <<jobVars, otherVars>>

\* captureFrame() throws
RecCaptureFail ==
    /\ rec.pc = "capture"
    /\ rec' = [rec EXCEPT !.pc = "catch", !.error = "page.screenshot failed"]
    /\ UNCHANGED <<now, jobVars, otherVars>>

\* What follows a write of the captured frame: writtenFrames += 1, then
\* catchUpFrames samples the clock at time t.
Counted(r, t) ==
    [r EXCEPT !.pc = "catchUp", !.writtenFrames = @ + 1,
              !.elapsedMs = t - r.startedAt,
              !.expectedFrames = ExpectedFrames(t - r.startedAt, r.cfg.videoFps)]

\* The final frame's write with stdin ended right after it, ahead of the catch-up.
RecWriteEndingBeforeCatchUp ==
    /\ rec.pc = "write"
    /\ LET written == [rec EXCEPT !.frame = "written", !.stdin.writes = @ + 1,
                                  !.ended = IF rec.ctx = "final" THEN @ + 1 ELSE @]
       IN  \/ /\ 0 \in WriteDelays(rec.cfg)
              /\ rec' = Counted(written, now)
           \/ /\ WriteDelays(rec.cfg) # {0}
              /\ rec' = [written EXCEPT !.pc = "drainWait"]
           \/ rec' = [written EXCEPT !.pc = "catch", !.error = "write EPIPE"]
    /\ UNCHANGED <<now, jobVars, otherVars>>

\* writeFrame(frame) going on after a write that returned false.
RecWriteNotAwaitingDrain ==
    /\ rec.pc = "write"
    /\ LET written == [rec EXCEPT !.frame = "written", !.stdin.writes = @ + 1,
                                  !.lastWritten = rec.shots]
       IN  \/ /\ 0 \in WriteDelays(rec.cfg)
              /\ rec' = Counted(written, now)
           \/ /\ WriteDelays(rec.cfg) # {0}
              /\ rec' = Counted([written EXCEPT !.needDrain = TRUE], now)
           \/ rec' = [written EXCEPT !.pc = "catch", !.error = "write EPIPE"]
    /\ UNCHANGED <<now, jobVars, otherVars>>

\* writeFrame(frame): ffmpeg.stdin.write returns true, or returns false under
\* backpressure and the recorder awaits 'drain', or the stream has failed and
\* the await rejects.
RecWrite ==
    /\ rec.pc = "write"
    /\ LET written == [rec EXCEPT !.frame = "written", !.stdin.writes = @ + 1,
                                  !.lastWritten = rec.shots]
       IN  \/ /\ 0 \in WriteDelays(rec.cfg)
              /\ rec' = Counted(written, now)
           \/ /\ WriteDelays(rec.cfg) # {0}
              /\ rec' = [written EXCEPT !.pc = "drainWait", !.needDrain = TRUE]
           \/ rec' = [written EXCEPT !.pc = "catch", !.error = "write EPIPE"]
    /\ UNCHANGED <<now, jobVars, otherVars>>

\* once(ffmpeg.stdin, 'drain') resolves after a write of the captured frame
RecDrained ==
    /\ rec.pc = "drainWait"
    /\ \E d \in WriteDelays(rec.cfg) \ {0} :
         /\ Pass(d)
         /\ rec' = Counted([rec EXCEPT !.needDrain = FALSE], now + d)
    /\ UNCHANGED <<jobVars, otherVars>>

\* once(ffmpeg.stdin, 'drain') rejects: the stream emitted 'error'
RecDrainFail ==
    /\ rec.pc \in {"drainWait", "catchUpDrainWait"}
    /\ rec' = [rec EXCEPT !.pc = "catch", !.error = "write EPIPE"]
    /\ UNCHANGED <<now, jobVars, otherVars>>

\* catchUpFrames' loop body: writeFrame(buffer) writes the frame once more
RecCatchUp ==
    /\ rec.pc = "catchUp"
    /\ rec.writtenFrames < rec.expectedFrames
    /\ LET written == [rec EXCEPT !.stdin.writes = @ + 1]
       IN  \/ /\ 0 \in WriteDelays(rec.cfg)
              /\ rec' = [written EXCEPT !.writtenFrames = @ + 1]
           \/ /\ WriteDelays(rec.cfg) # {0}
              /\ rec' = [written EXCEPT !.pc = "catchUpDrainWait", !.needDrain = TRUE]
           \/ rec' = [written EXCEPT !.pc = "catch", !.error = "write EPIPE"]
    /\ UNCHANGED <<now, jobVars, otherVars>>

\* The drained catch-up write handing the frame to stdin once more.
RecCatchUpDrainedRewrites ==
    /\ rec.pc = "catchUpDrainWait"
    /\ \E d \in WriteDelays(rec.cfg) \ {0} :
         /\ Pass(d)
         /\ rec' = [rec EXCEPT !.pc = "catchUp", !.writtenFrames = @ + 1,
                               !.stdin.writes = @ + 1]
    /\ UNCHANGED <<jobVars, otherVars>>

\* once(ffmpeg.stdin, 'drain') resolves in catchUpFrames; writtenFrames += 1
RecCatchUpDrained ==
    /\ rec.pc = "catchUpDrainWait"
    /\ \E d \in WriteDelays(rec.cfg) \ {0} :
         /\ Pass(d)
         /\ rec' = [rec EXCEPT !.pc = "catchUp", !.writtenFrames = @ + 1,
                               !.needDrain = FALSE]
    /\ UNCHANGED <<jobVars, otherVars>>

\* catchUpFrames returning one frame short.
RecCaughtUpEarly ==
    /\ rec.pc = "catchUp"
    /\ ~(rec.writtenFrames < rec.expectedFrames - 1)
    /\ rec' = [rec EXCEPT !.pc = CASE rec.ctx = "initial" -> "settle"
                                   [] rec.ctx = "final" -> "endStdin"
                                   [] OTHER -> "pace"]
    /\ UNCHANGED <<now, jobVars, otherVars>>

\* catchUpFrames returns
RecCaughtUp ==
    /\ rec.pc = "catchUp"
    /\ ~(rec.writtenFrames < rec.expectedFrames)
    /\ rec' = [rec EXCEPT !.pc = CASE rec.ctx = "initial" -> "settle"
                                   [] rec.ctx = "final" -> "endStdin"
                                   [] OTHER -> "pace"]
    /\ UNCHANGED <<now, jobVars, otherVars>>

\* How long sleep(ms) takes for ms > 0: setTimeout fires within a millisecond of it.
SleepDelays(num, den) == {Max(1, num \div den), (num \div den) + 1}

\* captureAndWriteFrame returning as soon as the frame is caught up.
RecPaceWithoutSleep ==
    /\ rec.pc = "pace"
    /\ rec' = [rec EXCEPT !.pc = CASE rec.ctx = "dwell" -> "dwell"
                                   [] rec.ctx = "tail" -> "tail"
                                   [] OTHER -> "checkStep"]
    /\ UNCHANGED <<now, jobVars, otherVars>>

\* The end of captureAndWriteFrame: sleep until the next frame is due
RecPace ==
    /\ rec.pc = "pace"
    /\ LET elapsedMs == now - rec.startedAt
           sleepNum == (rec.writtenFrames + 1) * 1000 - elapsedMs * rec.cfg.videoFps
       IN  IF sleepNum > 0
           THEN \E d \in SleepDelays(sleepNum, rec.cfg.videoFps) : Pass(d)
           ELSE UNCHANGED now
    /\ rec' = [rec EXCEPT !.pc = CASE rec.ctx = "dwell" -> "dwell"
                                   [] rec.ctx = "tail" -> "tail"
                                   [] OTHER -> "checkStep"]
    /\ UNCHANGED <<jobVars, otherVars>>

\* The dwell capturing a frame before it looks at its duration.
RecSettleCapturingFirst ==
    /\ rec.pc = "settle"
    /\ \E over \in SettleOverrun(rec.cfg) :
         LET d == getTransitionSettleBudget(rec) + over
             durationMs == Times(rec.cfg.videoInterval, playbackSpeedup(rec.cfg))
         IN  /\ Pass(d)
             /\ rec' = [rec EXCEPT !.pc = "capture", !.ctx = "dwell", !.dwells = @ + 1,
                                   !.dwellMs = durationMs,
                                   !.deadline = now + d + durationMs]
    /\ UNCHANGED <<jobVars, otherVars>>

\* waitForStepSettled(), then captureForDuration(videoInterval * playbackSpeedup)
RecSettle ==
    /\ rec.pc = "settle"
    /\ \E over \in SettleOverrun(rec.cfg) :
         LET d == getTransitionSettleBudget(rec) + over
             durationMs == Times(rec.cfg.videoInterval, playbackSpeedup(rec.cfg))
         IN  /\ Pass(d)
             /\ rec' = IF durationMs <= 0
                       THEN [rec EXCEPT !.pc = "readStep", !.dwells = @ + 1,
                                        !.dwellMs = durationMs]
                       ELSE [rec EXCEPT !.pc = "dwell", !.ctx = "dwell", !.dwells = @ + 1,
                                        !.dwellMs = durationMs,
                                        !.deadline = now + d + durationMs]
    /\ UNCHANGED <<jobVars, otherVars>>

\* captureForDuration's loop test, in the dwell
RecDwell ==
    /\ rec.pc = "dwell"
    /\ rec' = IF now < rec.deadline
              THEN [rec EXCEPT !.pc = "capture"]
              ELSE [rec EXCEPT !.pc = "readStep"]
    /\ UNCHANGED <<now, jobVars, otherVars>>

\* The range test without the clicks of the last slide.
canAdvanceInRangeThroughEnd(info, cfg) ==
    info.no <= endSlideNo(cfg)

canAdvanceInRange(info, cfg) ==
    \/ info.no < endSlideNo(cfg)
    \/ info.no = endSlideNo(cfg) /\ info.clicks < info.clicksTotal

\* getStepInfo(), and the loop's exit test
RecReadStep ==
    /\ rec.pc = "readStep"
    /\ \E d \in EvaluateDelays : Pass(d)
    /\ LET info == getStepInfo(rec.step)
           read == [rec EXCEPT !.dwellKeys = Append(@, getStepKey(info))]
       IN  rec' = IF ~info.hasNext \/ ~canAdvanceInRange(info, rec.cfg)
                  THEN [read EXCEPT !.pc = "capture", !.ctx = "final"]
                  ELSE [read EXCEPT !.pc = "nextStep", !.previousStamp = getStepKey(info),
                                    !.observedAt = 0, !.iterationAt = 0]
    /\ UNCHANGED <<jobVars, otherVars>>

\* nextStep() taking a missing bridge for a step advanced.
RecNextStepIgnoringResult ==
    /\ rec.pc = "nextStep"
    /\ \E d \in EvaluateDelays :
         /\ Pass(d)
         /\ LET called == [rec EXCEPT !.nextCalls = @ + 1,
                                      !.writesAtNext = rec.stdin.writes]
                waiting == [called EXCEPT !.pc = "transition", !.ctx = "transition",
                                !.deadline = now + d + transitionTimeoutMs(rec.cfg),
                                !.transitionDeadline = now + d + transitionTimeoutMs(rec.cfg)]
            IN  rec' = CASE rec.cfg.bridge = "advances" ->
                              [waiting EXCEPT !.step = AdvancedStep(rec.step)]
                         [] rec.cfg.bridge = "late" ->
                              [waiting EXCEPT !.changeAt = now + d + rec.cfg.lateMs]
                         [] OTHER -> waiting
    /\ UNCHANGED <<jobVars, otherVars>>

\* nextStep(), and the transition deadline
RecNextStep ==
    /\ rec.pc = "nextStep"
    /\ \E d \in EvaluateDelays :
         /\ Pass(d)
         /\ LET called == [rec EXCEPT !.nextCalls = @ + 1,
                                      !.nextKeys = Append(@, rec.previousStamp),
                                      !.writesAtNext = rec.stdin.writes]
                waiting == [called EXCEPT !.pc = "transition", !.ctx = "transition",
                                !.deadline = now + d + transitionTimeoutMs(rec.cfg),
                                !.transitionDeadline = now + d + transitionTimeoutMs(rec.cfg)]
            IN  rec' = CASE rec.cfg.bridge = "absent" ->
                              [called EXCEPT !.pc = "catch",
                                  !.error = "Failed to trigger next step in browser context."]
                         [] rec.cfg.bridge = "advances" ->
                              [waiting EXCEPT !.step = AdvancedStep(rec.step)]
                         [] rec.cfg.bridge = "late" ->
                              [waiting EXCEPT !.changeAt = now + d + rec.cfg.lateMs]
                         [] OTHER -> waiting
    /\ UNCHANGED <<jobVars, otherVars>>

\* The transition wait going on to the tail when its deadline passes.
RecTransitionGivingUpSilently ==
    /\ rec.pc = "transition"
    /\ rec' = IF now < rec.deadline
              THEN [rec EXCEPT !.pc = "capture", !.iterationAt = now]
              ELSE [rec EXCEPT !.pc = "tail", !.ctx = "tail"]
    /\ UNCHANGED <<now, jobVars, otherVars>>

\* The transition wait's loop test; past the deadline the step failed to advance
RecTransition ==
    /\ rec.pc = "transition"
    /\ rec' = IF now < rec.deadline
              THEN [rec EXCEPT !.pc = "capture", !.iterationAt = now]
              ELSE [rec EXCEPT !.pc = "catch", !.error = "Failed to advance from step",
                               !.errorStep = rec.previousStamp]
    /\ UNCHANGED <<now, jobVars, otherVars>>

\* The step the page is in at time t: a late bridge's step changes by itself.
PageStep(r, t) ==
    IF r.changeAt > 0 /\ t >= r.changeAt THEN AdvancedStep(r.step) ELSE r.step

\* The transition wait taking any key it reads for a changed one.
RecCheckStepAnyKey ==
    /\ rec.pc = "checkStep"
    /\ \E d \in EvaluateDelays :
         /\ Pass(d)
         /\ LET page == PageStep(rec, now + d)
            IN  rec' = [rec EXCEPT !.pc = "tail", !.ctx = "tail",
                                  !.step = page, !.changeAt = 0,
                                  !.observedAt = now + d,
                                  !.deadline = now + d + getTransitionSettleBudget(rec)]
    /\ UNCHANGED <<jobVars, otherVars>>

\* getStepInfo() in the transition wait; once the key has changed, the budget
\* of the transition's tail
RecCheckStep ==
    /\ rec.pc = "checkStep"
    /\ \E d \in EvaluateDelays :
         /\ Pass(d)
         /\ LET page == PageStep(rec, now + d)
            IN  rec' = IF getStepKey(getStepInfo(page)) # rec.previousStamp
                       THEN [rec EXCEPT !.pc = "tail", !.ctx = "tail",
                                        !.step = page, !.changeAt = 0,
                                        !.observedAt = now + d,
                                        !.deadline = now + d + getTransitionSettleBudget(rec)]
                       ELSE [rec EXCEPT !.pc = "transition"]
    /\ UNCHANGED <<jobVars, otherVars>>

\* captureForDuration's loop test, in the transition's tail
RecTail ==
    /\ rec.pc = "tail"
    /\ rec' = IF now < rec.deadline
              THEN [rec EXCEPT !.pc = "capture"]
              ELSE [rec EXCEPT !.pc = "settle"]
    /\ UNCHANGED <<now, jobVars, otherVars>>

\* ffmpeg.stdin.end() on the success path
RecEndStdin ==
    /\ rec.pc = "endStdin"
    /\ rec' = [rec EXCEPT !.pc = "awaitFfmpeg", !.ended = @ + 1]
    /\ UNCHANGED <<now, jobVars, otherVars>>

\* The error ffmpegDone rejects with when ffmpeg closes with this code.
FfmpegExitError(code) == IF code = 0 THEN "none" ELSE "ffmpeg exited with code 1"

\* What ffmpeg has written to stderr when it closes.
FfmpegLogs == {<<>>, <<" ", "\n">>, <<" ", "e", "\n">>}

\* The message of that error with the logs as they are.
FfmpegExitMessageUntrimmed(code, ffmpegLogs) ==
    IF ffmpegLogs # <<>> THEN ffmpegLogs
    ELSE <<"[", "s", "l", "i", "d", "e", "v", "]", " ", "f", "f", "m", "p", "e", "g", " ",
           "e", "x", "i", "t", "e", "d", " ", "w", "i", "t", "h", " ", "c", "o", "d", "e",
           " ">> \o NumeralOf(code)

\* ffmpegLogs.trim() || `[slidev] ffmpeg exited with code ${code}`
FfmpegExitMessage(code, ffmpegLogs) ==
    IF Trim(ffmpegLogs) # <<>> THEN Trim(ffmpegLogs)
    ELSE <<"[", "s", "l", "i", "d", "e", "v", "]", " ", "f", "f", "m", "p", "e", "g", " ",
           "e", "x", "i", "t", "e", "d", " ", "w", "i", "t", "h", " ", "c", "o", "d", "e",
           " ">> \o NumeralOf(code)

\* await ffmpegDone, inside the try block
RecFfmpegDone ==
    /\ rec.pc = "awaitFfmpeg"
    /\ \E code \in {0, 1}, logs \in FfmpegLogs :
         rec' = IF code = 0
                THEN [rec EXCEPT !.pc = "done", !.ffmpeg = "exited", !.exitCode = code,
                                 !.ffmpegLogs = logs]
                ELSE [rec EXCEPT !.pc = "catch", !.ffmpeg = "exited", !.exitCode = code,
                                 !.ffmpegLogs = logs,
                                 !.error = FfmpegExitError(code),
                                 !.message = FfmpegExitMessage(code, logs)]
    /\ UNCHANGED <<now, jobVars, otherVars>>

\* catch (error): captureError = error; if (captureError): ffmpeg.stdin.end()
RecCatch ==
    /\ rec.pc = "catch"
    /\ rec' = [rec EXCEPT !.pc = "drain", !.captureError = rec.error, !.ended = @ + 1]
    /\ UNCHANGED <<now, jobVars, otherVars>>

\* The cleanup awaiting ffmpegDone without swallowing its rejection.
RecDrainThrowsEncoderError ==
    /\ rec.pc = "drain"
    /\ \E code \in (IF rec.ffmpeg = "exited" THEN {rec.exitCode} ELSE {0, 1}) :
         rec' = [rec EXCEPT !.pc = "failed", !.ffmpeg = "exited", !.exitCode = code,
                            !.thrown = IF code = 0 THEN rec.captureError
                                       ELSE FfmpegExitError(code)]
    /\ UNCHANGED <<now, jobVars, otherVars>>

\* await ffmpegDone.catch(() => {}); throw captureError
RecDrain ==
    /\ rec.pc = "drain"
    /\ \E code \in (IF rec.ffmpeg = "exited" THEN {rec.exitCode} ELSE {0, 1}) :
         rec' = [rec EXCEPT !.pc = "failed", !.ffmpeg = "exited", !.exitCode = code,
                            !.thrown = rec.captureError]
    /\ UNCHANGED <<now, jobVars, otherVars>>

\* The export has returned or thrown.
RecOver == rec.pc \in {"done", "failed", "aborted", "rejected"}

\* The background task of the job around exportSlides: the job is stored as
\* done when it resolves, as error with the message of what it throws
RecJobSettle ==
    /\ RecOver
    /\ rec.job.status = "running"
    /\ rec' = [rec EXCEPT !.job =
                  IF rec.pc = "done"
                  THEN [status |-> "done", error |-> "none", message |-> <<>>]
                  ELSE [status |-> "error", error |-> rec.thrown,
                        message |-> IF rec.thrown = FfmpegExitError(1) THEN rec.message
                                    ELSE <<>>]]
    /\ UNCHANGED <<now, jobVars, otherVars>>

NextMp4 ==
    \/ RecCheck
    \/ RecProbeFfmpeg
    \/ RecGoPlay
    \/ RecSpawn
    \/ RecTargetWait
    \/ RecCapture
    \/ RecCaptureFail
    \/ RecWrite
    \/ RecDrained
    \/ RecDrainFail
    \/ RecCatchUp
    \/ RecCatchUpDrained
    \/ RecCaughtUp
    \/ RecPace
    \/ RecSettle
    \/ RecDwell
    \/ RecReadStep
    \/ RecNextStep
    \/ RecTransition
    \/ RecCheckStep
    \/ RecTail
    \/ RecEndStdin
    \/ RecFfmpegDone
    \/ RecCatch
    \/ RecDrain
    \/ RecJobSettle

SpecMp4 == InitMp4 /\ [][NextMp4]_vars

\* The event loop runs the recorder's next continuation whenever there is one.
SpecMp4Fair == SpecMp4 /\ WF_vars(NextMp4)

(***************************************************************************)
(* The frames of an MP4 recording                                          *)
(***************************************************************************)

\* The recording's main loop has just been left by its break.
MainLoopExited == rec.pc = "capture" /\ rec.ctx = "final"

\* The final frame has been written and caught up; stdin is about to be closed.
FinalFrameCaughtUp == rec.pc = "endStdin"

\* Every frame captured so far has been written to the encoder.
NoFrameDropped == rec.stdin.dropped = 0 /\ rec.frame # "captured"

\* C10 as stated: when the main loop exits, writtenFrames is at least
\* ceil(wallClockDuration * fps / 1000), wallClockDuration being the time
\* elapsed since startedAt, and no captured frame has been dropped.
C10_FramesCoverWallClockAtLoopExit ==
    MainLoopExited =>
        /\ rec.writtenFrames * 1000 >= (now - rec.startedAt) * rec.cfg.videoFps
        /\ NoFrameDropped

\* C10, amended: once the final frame has been written and caught up,
\* writtenFrames is at least max(1, floor(d * fps / 1000)), d being the time
\* since startedAt that the final catch-up sampled, and no captured frame has
\* been dropped.
C10_FramesCoverSampledClockAfterFinalCatchUp ==
    FinalFrameCaughtUp =>
        /\ rec.writtenFrames >= 1
        /\ (rec.writtenFrames + 1) * 1000 > rec.elapsedMs * rec.cfg.videoFps
        /\ rec.elapsedMs <= now - rec.startedAt
        /\ rec.elapsedMs + rec.cfg.drainMs * rec.writtenFrames >= now - rec.startedAt
        /\ NoFrameDropped

\* A slow recording has ended its loop with its final frame duplicated up to
\* the sampled clock.
C10_Witness ==
    /\ FinalFrameCaughtUp
    /\ rec.cfg.shotMs = 80
    /\ rec.writtenFrames > 20
    /\ rec.writtenFrames * 1000 <= rec.elapsedMs * rec.cfg.videoFps
    /\ rec.writtenFrames * 1000 < (now - rec.startedAt) * rec.cfg.videoFps

\* A write is suspended in writeFrame, awaiting 'drain'.
WriteSuspended == rec.pc \in {"drainWait", "catchUpDrainWait"}

\* A write has failed.
WriteFailed == rec.error = "write EPIPE"

\* C11 as stated: throughout a recording, also while a write is suspended on
\* backpressure and after a write has failed, the number of frames written to
\* the encoder's stdin equals writtenFrames.
C11_WritesEqualCounterThroughout == rec.stdin.writes = rec.writtenFrames

\* C11, amended: while no write is suspended and none has failed, the frames
\* written to stdin equal writtenFrames; while a write is suspended, and after
\* a write has failed, stdin has received exactly one frame more.
C11_WritesEqualCounterBetweenWrites ==
    IF WriteSuspended \/ WriteFailed
    THEN rec.stdin.writes = rec.writtenFrames + 1
    ELSE rec.stdin.writes = rec.writtenFrames

\* Writes that suspended on backpressure, duplicates among them, have been counted.
C11_Witness ==
    /\ rec.pc = "pace"
    /\ rec.cfg.drainMs > 0
    /\ rec.writtenFrames > 12
    /\ rec.writtenFrames = rec.expectedFrames
    /\ rec.stdin.writes = rec.writtenFrames

(***************************************************************************)
(* The encoder's stdin and the encoder's release                           *)
(***************************************************************************)

\* genPageMp4 has returned or thrown after spawning ffmpeg.
JobOverWithEncoder == rec.pc \in {"done", "failed", "aborted"}

\* C12 as stated: in every MP4 job the encoder's stdin is closed exactly once,
\* on the success path, on a capture exception, and when the encoder exits
\* with a non-zero code after the recorder has closed stdin.
C12_StdinClosedExactlyOnce == JobOverWithEncoder => rec.ended = 1

\* C13: no frame is written to the encoder's stdin once ffmpeg.stdin.end()
\* has been called, on any path of genPageMp4.
C13_NoWriteAfterEnd == [][rec.ended > 0 => rec'.stdin.writes = rec.stdin.writes]_vars

\* A recording that wrote frames, duplicates among them, has ended stdin and is over.
C13_Witness ==
    /\ rec.pc \in {"done", "failed"}
    /\ rec.ended > 0
    /\ rec.stdin.writes > 10
    /\ rec.ctx = "final"

\* The exceptions raised while capturing.
CaptureErrors ==
    {"page.screenshot failed", "write EPIPE",
     "Failed to trigger next step in browser context.", "Failed to advance from step"}

\* C14: after an exception raised during capture, the recorder has closed
\* stdin, the encoder has exited, whatever its exit code, and the error thrown
\* is the capture error, not the encoder's.
C14_CaptureErrorRethrown ==
    (rec.pc = "failed" /\ rec.error \in CaptureErrors) =>
        /\ rec.ended = 1
        /\ rec.ffmpeg = "exited"
        /\ rec.thrown = rec.error

\* A screenshot failed, the encoder then exited with a non-zero code, and the
\* screenshot's error was thrown.
C14_Witness ==
    /\ rec.pc = "failed"
    /\ rec.error = "page.screenshot failed"
    /\ rec.exitCode = 1
    /\ rec.thrown = "page.screenshot failed"
    /\ rec.stdin.writes > 0

\* C15: once the encoder is spawned, every abort of genPageMp4, one before the
\* capture loop included, has closed the encoder's stdin and awaited its exit
\* by the time the error propagates.
C15_EncoderReleasedOnAbort ==
    (rec.pc \in {"failed", "aborted"}) =>
        /\ rec.ended >= 1
        /\ rec.ffmpeg = "exited"

(***************************************************************************)
(* The steps of a recording                                                *)
(***************************************************************************)

\* The key of the step the page is in.
CurrentKey == <<rec.step.no, rec.step.clicks>>

\* The loop has gone past a transition wait: into its tail or the next dwell.
PastTransition == rec.nextCalls > 0 /\ rec.pc \in {"tail", "settle", "dwell", "readStep"}

\* What C16 says besides the time of the observation: frames follow the call,
\* the loop goes on only with a changed key, and a timeout is fatal with the
\* saved key in its message.
AdvanceOrFail ==
    /\ rec.observedAt > 0 =>
           /\ rec.stdin.writes > rec.writesAtNext
           /\ CurrentKey # rec.previousStamp
    /\ PastTransition =>
           /\ rec.observedAt > 0
           /\ CurrentKey # rec.previousStamp
    /\ rec.error = "Failed to advance from step" =>
           /\ rec.errorStep = rec.previousStamp
           /\ rec.observedAt = 0
           /\ now >= rec.transitionDeadline

\* C16 as stated: after nextStep(), either the step key is observed to differ
\* from the saved key within the transition timeout, with at least one frame
\* captured after the call, or the job fails with "Failed to advance from
\* step <key>"; the loop never goes on to the next dwell with an unchanged key.
C16_AdvanceObservedWithinTimeout ==
    /\ AdvanceOrFail
    /\ rec.observedAt > 0 => rec.observedAt <= rec.transitionDeadline

\* C16, amended: the changed key is observed by a capture iteration that began
\* within the transition timeout (the observation itself may come after it).
C16_AdvanceObservedByIterationWithinTimeout ==
    /\ AdvanceOrFail
    /\ rec.observedAt > 0 =>
           /\ rec.iterationAt < rec.transitionDeadline
           /\ rec.iterationAt < rec.observedAt

\* A late bridge's step was seen changed after the deadline by an iteration
\* begun before it, and the loop went on to the transition's tail.
C16_Witness ==
    /\ rec.pc = "tail"
    /\ rec.cfg.bridge = "late"
    /\ rec.observedAt > rec.transitionDeadline
    /\ rec.iterationAt < rec.transitionDeadline
    /\ rec.stdin.writes > rec.writesAtNext + 30

SingleSlideZeroClicks(cfg) == Len(cfg.pages) = 1 /\ DeckClicks[cfg.pages[1]] = 0

\* The main loop has been left by its break.
Finalizing == rec.ctx = "final"

\* C18: for a range of a single slide with clicksTotal = 0 the recorder dwells
\* exactly once, never calls nextStep(), and then finalizes, with or without
\* further slides in the deck.
C18_SingleSlideOneDwell ==
    SingleSlideZeroClicks(rec.cfg) =>
        /\ rec.nextCalls = 0
        /\ rec.dwells <= 1
        /\ rec.pc \in {"dwell", "readStep"} \/ rec.ctx = "dwell" => rec.dwells = 1
        /\ Finalizing => rec.dwells = 1 /\ Len(rec.dwellKeys) = 1
        /\ rec.pc \notin {"nextStep", "transition", "checkStep", "tail"}

\* A recording of slide 2 alone, the deck having a slide 3, is done after one dwell.
C18_Witness ==
    /\ rec.cfg.pages = <<2>>
    /\ rec.pc = "done"
    /\ rec.dwells = 1
    /\ rec.nextCalls = 0
    /\ getStepInfo(rec.step).hasNext

\* The page has been navigated to the range's first slide.
OnThePage == rec.pc \notin {"start", "probe", "goPlay", "rejected"}

\* C19: with a bridge advancing one step per nextStep(), every step the page
\* is in during a recording of the range [start..end] has start <= no <= end,
\* and nextStep() is never called at or past (end, clicksTotal).
C19_StepsStayInRange ==
    (rec.cfg.bridge = "advances" /\ rec.cfg.pages # <<>> /\ OnThePage) =>
        LET start == rec.cfg.pages[1]
            end == rec.cfg.pages[Len(rec.cfg.pages)]
        IN  /\ start <= rec.step.no
            /\ rec.step.no <= end
            /\ rec.pc = "nextStep" =>
                   \/ rec.step.no < end
                   \/ rec.step.no = end /\ rec.step.clicks < DeckClicks[end]

\* The recording of slides 1-2 of the three-slide deck is done on slide 2.
C19_Witness ==
    /\ rec.cfg.bridge = "advances"
    /\ rec.cfg.pages = <<1, 2>>
    /\ rec.pc = "done"
    /\ rec.step.no = 2
    /\ rec.nextCalls = 2
    /\ getStepInfo(rec.step).hasNext

\* The step keys of slides no..end, clicks included, in order.
RECURSIVE KeysOfSlides(_, _)
KeysOfSlides(no, end) ==
    IF no > end THEN <<>>
    ELSE [i \in 1..(DeckClicks[no] + 1) |-> <<no, i - 1>>] \o KeysOfSlides(no + 1, end)

IsPrefix(a, b) == Len(a) <= Len(b) /\ SubSeq(b, 1, Len(a)) = a

\* C20: with a bridge advancing one step per nextStep(), the keys read at the
\* end of the dwells are (start,0), ..., (start,c_start), ..., (end,c_end), in
\* this order, none skipped, each dwelt on once.
C20_DwellKeysInOrder ==
    (rec.cfg.bridge = "advances" /\ rec.cfg.pages # <<>> /\ OnThePage) =>
        LET keys == KeysOfSlides(rec.cfg.pages[1], rec.cfg.pages[Len(rec.cfg.pages)])
        IN  /\ IsPrefix(rec.dwellKeys, keys)
            /\ rec.dwells \in {Len(rec.dwellKeys), Len(rec.dwellKeys) + 1}
            /\ Finalizing => rec.dwellKeys = keys /\ rec.dwells = Len(keys)

\* The recording of slides 1-2 has read (1,0), (1,1) and (2,0) and is done.
C20_Witness ==
    /\ rec.cfg.bridge = "advances"
    /\ rec.pc = "done"
    /\ rec.dwellKeys = <<<<1, 0>>, <<1, 1>>, <<2, 0>>>>
    /\ rec.dwells = 3

(***************************************************************************)
(* The options of an MP4 recording                                         *)
(***************************************************************************)

\* The options, whole numbers and a scale, break a precondition of genPageMp4.
Mp4OptionsInvalid(cfg) ==
    \/ cfg.withClicks = FALSE
    \/ cfg.videoFps \notin 1..60
    \/ cfg.videoInterval < 0
    \/ cfg.videoMotionScale.num <= 0
    \/ \E i \in 2..Len(cfg.pages) : cfg.pages[i] # cfg.pages[i - 1] + 1

\* Only the range breaks a precondition.
OnlyRangeInvalid(cfg) ==
    /\ cfg.withClicks
    /\ cfg.videoFps \in 1..60
    /\ cfg.videoInterval >= 0
    /\ cfg.videoMotionScale.num > 0
    /\ \E i \in 2..Len(cfg.pages) : cfg.pages[i] # cfg.pages[i - 1] + 1

\* C21: when a precondition of the MP4 export fails (withClicks false, fps
\* outside [1,60], a negative interval, a motion scale not above 0, a range
\* that is not contiguous) genPageMp4 throws before it probes for or spawns
\* ffmpeg and before it navigates the page; for the range the message is the
\* one about a contiguous --range.
C21_PreconditionsRejectBeforeEncoder ==
    Mp4OptionsInvalid(rec.cfg) =>
        /\ rec.pc \in {"start", "rejected"}
        /\ rec.ffmpeg = "none"
        /\ rec.ffmpegArgs = <<>>
        /\ rec.step.no = 0
        /\ rec.pc = "rejected" =>
               /\ rec.thrown \notin {"none", "MP4 export requires ffmpeg", "page.goto: Timeout"}
               /\ OnlyRangeInvalid(rec.cfg) => rec.thrown = "requires a contiguous --range"

\* The recording of the range "1,3" is rejected for its range.
C21_Witness ==
    /\ rec.cfg.pages = <<1, 3>>
    /\ rec.pc = "rejected"
    /\ rec.thrown = "requires a contiguous --range"
    /\ rec.ffmpeg = "none"

\* C22: an MP4 export whose range holds no slide is rejected, not recorded.
C22_EmptyRangeRejected ==
    rec.cfg.pages = <<>> =>
        /\ rec.pc \in {"start", "rejected"}
        /\ rec.ffmpeg = "none"
        /\ rec.stdin.writes = 0

\* The recording of the claim: 60 fps, no dwell, a bridge that advances.
SixtyFpsNoInterval(cfg) ==
    /\ cfg.videoFps = 60
    /\ cfg.videoInterval = 0
    /\ cfg.bridge = "advances"
    /\ ~Mp4OptionsInvalid(cfg)

\* C23: with videoInterval = 0 and 60 fps, on a deck whose bridge advances one
\* step per nextStep(), the recording comes to its end: it leaves the main
\* loop, writes the final frame, ends ffmpeg's stdin and awaits ffmpeg, unless
\* a capture or ffmpeg fails it; no frame is captured in a dwell, the frames
\* are those of the transitions and of the first and last step.
C23_ZeroIntervalTerminates ==
    /\ [](SixtyFpsNoInterval(rec.cfg) =>
            /\ rec.dwellFrames = 0
            /\ rec.ctx # "dwell"
            /\ rec.dwellMs \in {-1, 0}
            /\ rec.pc = "done" =>
                   /\ rec.ctx = "final"
                   /\ rec.frame = "written"
                   /\ rec.stdin.writes = rec.writtenFrames
                   /\ rec.ended = 1
                   /\ rec.ffmpeg = "exited"
                   /\ rec.dwells = Len(KeysOfSlides(rec.cfg.pages[1],
                                                    rec.cfg.pages[Len(rec.cfg.pages)])))
    /\ SixtyFpsNoInterval(rec.cfg) ~> (rec.pc = "done" \/ rec.thrown # "none")

\* A 60 fps recording of the whole deck without dwell is done, its frames
\* those of three transitions.
C23_Witness ==
    /\ SixtyFpsNoInterval(rec.cfg)
    /\ rec.cfg.pages = <<1, 2, 3>>
    /\ rec.pc = "done"
    /\ rec.nextCalls = 3
    /\ rec.dwells = 4
    /\ rec.dwellFrames = 0
    /\ rec.stdin.writes > 4

\* C24: the timeline's speedup is max(1, motionScale): the page's motion is
\* dilated and setpts=PTS/<speedup> is among ffmpeg's arguments if and only if
\* motionScale > 1, the speedup being the scale then, and each dwell lasts
\* videoInterval * speedup; for a scale of 1 or below there is neither.
C24_SpeedupIsMaxOneScale ==
    LET scale == rec.cfg.videoMotionScale
        above == scale.num > scale.den
    IN  /\ OnThePage => (rec.dilated <=> above)
        /\ ~OnThePage => ~rec.dilated
        /\ rec.ffmpeg # "none" =>
               /\ Has(rec.ffmpegArgs, "setpts") <=> above
               /\ above => rec.ffmpegArgs.setpts = scale
        /\ rec.dwellMs >= 0 =>
               IF above THEN rec.dwellMs * scale.den = rec.cfg.videoInterval * scale.num
               ELSE rec.dwellMs = rec.cfg.videoInterval

\* Recorded at a scale of 3/2, the deck's motion was dilated, ffmpeg given
\* setpts=PTS/1.5, and the steps dwelt on for 150 ms each.
C24_Witness ==
    /\ rec.cfg.videoMotionScale = Scale(3, 2)
    /\ rec.pc = "done"
    /\ rec.dilated
    /\ rec.ffmpegArgs.setpts = Scale(3, 2)
    /\ rec.dwellMs = 150

----------------------------------------------------------------------------
(* The table of contents of a PDF: addTocToPdf *)

\* No job, no request and no recording is under way.
ServiceIdle ==
    /\ now = 0
    /\ videoExportJobs = <<>>
    /\ jobOrder = <<>>
    /\ jobTasks = <<>>
    /\ pendingPosts = {}
    /\ res = NoResponse
    /\ stored = <<>>
    /\ firstGet = <<>>
    /\ rec = RecIdle

\* The slides' metadata: a title or none (""), the title's level, and
\* frontmatter.hideInToc of a titled slide.
SlideInfos ==
    [title : {"A"}, level : 1..MaxTitleLevel, hideInToc : BOOLEAN]
    \cup [title : {""}, level : 1..MaxTitleLevel, hideInToc : {FALSE}]

TocDecks == UNION {[1..n -> SlideInfos] : n \in 0..MaxTocSlides}

\* The print page of a deck without clicks: one .print-slide-container a slide.
TocContainers(slides) == [i \in 1..Len(slides) |-> [no |-> i, clicks |-> 0]]

\* getSlidesIndex(): for each slide of the print page, the number of containers
\* of the slides up to it, its own included
getSlidesIndex(containers) ==
    [no \in {containers[i].no : i \in DOMAIN containers} |->
         Cardinality({i \in DOMAIN containers : containers[i].no <= no})]

\* String(slideIndexes[no])
PathOf(slideIndexes, no) ==
    IF no \in DOMAIN slideIndexes THEN ToString(slideIndexes[no]) ELSE "undefined"

\* No title goes below another: every item joins the tree at its root.
GoesBelowLastNever(tree, titleLevel, level) == FALSE

\* A title going below a last item whose title is at its own level, too.
GoesBelowLastOfSameLevel(tree, titleLevel, level) ==
    /\ titleLevel # 0
    /\ titleLevel > level
    /\ Len(tree) > 0
    /\ tree[Len(tree)].titleLevel <= titleLevel

\* addToTree's test: the title goes below the last item of this level
GoesBelowLast(tree, titleLevel, level) ==
    /\ titleLevel # 0
    /\ titleLevel > level
    /\ Len(tree) > 0
    /\ tree[Len(tree)].titleLevel < titleLevel

RECURSIVE addToTree(_, _, _, _)
addToTree(tree, info, slideIndexes, level) ==
    LET titleLevel == info.level
    IN  IF GoesBelowLast(tree, titleLevel, level)
        THEN [tree EXCEPT ![Len(tree)].children =
                              addToTree(@, info, slideIndexes, level + 1)]
        ELSE Append(tree, [no |-> info.index, children |-> <<>>, level |-> level,
                           titleLevel |-> titleLevel,
                           path |-> PathOf(slideIndexes, info.index + 1),
                           hideInToc |-> info.hideInToc,
                           title |-> info.title])

\* '-'.repeat(count)
RECURSIVE Repeat(_, _)
Repeat(char, count) == IF count <= 0 THEN <<>> ELSE <<char>> \o Repeat(char, count - 1)

\* The line `${null}` of an untitled item that has children.
NullLine == [path |-> "null", dashes |-> <<>>, title |-> ""]

\* makeOutline(): the outline's lines, each `${path}|${dashes}|${title}`
RECURSIVE makeOutline(_)
makeOutline(tree) ==
    IF tree = <<>> THEN <<>>
    ELSE LET item == Head(tree)
             childrenOutline == makeOutline(item.children)
             rootOutline == IF item.title # ""
                            THEN <<[path |-> item.path,
                                    dashes |-> Repeat("-", item.level - 1),
                                    title |-> item.title]>>
                            ELSE IF childrenOutline # <<>> THEN <<NullLine>> ELSE <<>>
         IN  rootOutline \o childrenOutline \o makeOutline(Tail(tree))

TocStart(slides) ==
    [pc |-> "reduce", slides |-> slides, next |-> 1, tocTree |-> <<>>, outline |-> <<>>,
     slideIndexes |-> getSlidesIndex(TocContainers(slides))]

InitToc ==
    /\ ServiceIdle
    /\ processExitCode = 0
    /\ exp = Idle
    /\ client = Idle
    /\ calc \in {TocStart(slides) : slides \in TocDecks}

\* slides.filter(slide => slide.title).reduce(...): the next slide of the deck
TocReduce ==
    /\ calc.pc = "reduce"
    /\ calc.next <= Len(calc.slides)
    /\ LET slide == calc.slides[calc.next]
           info == [index |-> calc.next - 1, title |-> slide.title, level |-> slide.level,
                    hideInToc |-> slide.hideInToc]
       IN  calc' = IF slide.title # ""
                   THEN [calc EXCEPT !.next = @ + 1,
                                     !.tocTree = addToTree(@, info, calc.slideIndexes, 1)]
                   ELSE [calc EXCEPT !.next = @ + 1]
    /\ UNCHANGED <<now, jobVars, rec, processExitCode, exp, client>>

\* const outline = makeOutline(tocTree)
TocOutline ==
    /\ calc.pc = "reduce"
    /\ calc.next > Len(calc.slides)
    /\ calc' = [calc EXCEPT !.pc = "outlined", !.outline = makeOutline(calc.tocTree)]
    /\ UNCHANGED <<now, jobVars, rec, processExitCode, exp, client>>

NextToc ==
    \/ TocReduce
    \/ TocOutline

SpecToc == InitToc /\ [][NextToc]_vars

\* The titled slides of the deck, by their numbers.
Titled(slides) == {no \in 1..Len(slides) : slides[no].title # ""}

\* The outline's lines of slide no, which is alone on its page.
LinesOf(outline, no) == {i \in 1..Len(outline) : outline[i].path = ToString(no)}

\* The titled slide before slide no, or 0.
TitledBefore(slides, no) ==
    LET before == {k \in Titled(slides) : k < no}
    IN  IF before = {} THEN 0 ELSE CHOOSE k \in before : \A j \in before : j <= k

\* Up to slide no the titles start at level 1 and none is more than one level
\* below the title before it.
NestedByLevel(slides, no) ==
    \A k \in Titled(slides) :
        k <= no =>
            IF TitledBefore(slides, k) = 0 THEN slides[k].level = 1
            ELSE slides[k].level <= slides[TitledBefore(slides, k)].level + 1

\* Slide no is a first title below level 1, or a title more than one level
\* below the title before it.
JumpsLevel(slides, no) ==
    IF TitledBefore(slides, no) = 0 THEN slides[no].level > 1
    ELSE slides[no].level > slides[TitledBefore(slides, no)].level + 1

\* C25 as stated: in the outline of any deck there is one line for every titled
\* slide and none besides, and the line of a slide has as many dashes as its
\* title's level minus 1.
C25_DashesAreTitleLevelLessOne ==
    calc.pc = "outlined" =>
        /\ Len(calc.outline) = Cardinality(Titled(calc.slides))
        /\ \A no \in Titled(calc.slides) :
               /\ Cardinality(LinesOf(calc.outline, no)) = 1
               /\ \A i \in LinesOf(calc.outline, no) :
                      Len(calc.outline[i].dashes) = calc.slides[no].level - 1

\* C25: in the outline of any deck there is one line for every titled slide
\* and none besides, in the slides' order; the line of a slide has at most as
\* many dashes as its title's level minus 1, and exactly as many when the
\* titles up to it start at level 1 and never go down more than one level
\* at a time, and fewer when its own title does.
C25_DashesAreDepthLessOne ==
    calc.pc = "outlined" =>
        /\ Len(calc.outline) = Cardinality(Titled(calc.slides))
        /\ \A i, j \in 1..Len(calc.outline) :
               i < j => \E m, n \in Titled(calc.slides) :
                           /\ m < n
                           /\ calc.outline[i].path = ToString(m)
                           /\ calc.outline[j].path = ToString(n)
        /\ \A no \in Titled(calc.slides) :
               /\ Cardinality(LinesOf(calc.outline, no)) = 1
               /\ \A i \in LinesOf(calc.outline, no) :
                      /\ Len(calc.outline[i].dashes) <= calc.slides[no].level - 1
                      /\ \A d \in 1..Len(calc.outline[i].dashes) :
                             calc.outline[i].dashes[d] = "-"
                      /\ NestedByLevel(calc.slides, no) =>
                             Len(calc.outline[i].dashes) = calc.slides[no].level - 1
                      /\ JumpsLevel(calc.slides, no) =>
                             Len(calc.outline[i].dashes) < calc.slides[no].level - 1

\* The outline of titles at levels 1, 2 and 3 has no, one and two dashes.
C25_Witness ==
    /\ calc.pc = "outlined"
    /\ Len(calc.slides) = 3
    /\ \A no \in 1..3 : calc.slides[no] = [title |-> "A", level |-> no, hideInToc |-> FALSE]
    /\ Len(calc.outline) = 3
    /\ \A no \in 1..3 : Len(calc.outline[no].dashes) = no - 1

----------------------------------------------------------------------------
(* The parts of an output filename: sanitizePart *)

PartChars == {" ", "-", ".", "_", "a", "/"}

PartValues == UNION {[1..n -> PartChars] : n \in 0..MaxLen}

InitSanitize ==
    /\ ServiceIdle
    /\ processExitCode = 0
    /\ exp = Idle
    /\ client = Idle
    /\ calc \in {[pc |-> "value", value |-> value, once |-> <<>>, twice |-> <<>>] :
                    value \in PartValues}

\* sanitizePart(value)
SanitizeOnce ==
    /\ calc.pc = "value"
    /\ calc' = [calc EXCEPT !.pc = "once", !.once = sanitizePart(calc.value)]
    /\ UNCHANGED <<now, jobVars, rec, processExitCode, exp, client>>

\* sanitizePart of the result
SanitizeTwice ==
    /\ calc.pc = "once"
    /\ calc' = [calc EXCEPT !.pc = "twice", !.twice = sanitizePart(calc.once)]
    /\ UNCHANGED <<now, jobVars, rec, processExitCode, exp, client>>

NextSanitize ==
    \/ SanitizeOnce
    \/ SanitizeTwice

SpecSanitize == InitSanitize /\ [][NextSanitize]_vars

\* C26: whatever the string, sanitizePart's result has only characters of
\* [\w.-], neither starts nor ends with "-", and has no "--"; sanitizePart of
\* the result is the result.
C26_SanitizedPartClean ==
    calc.pc \in {"once", "twice"} =>
        LET part == calc.once
        IN  /\ \A i \in 1..Len(part) : part[i] \in WordChars \cup {".", "-"}
            /\ part # <<>> => part[1] # "-" /\ part[Len(part)] # "-"
            /\ \A i \in 1..(Len(part) - 1) : ~(part[i] = "-" /\ part[i + 1] = "-")
            /\ calc.pc = "twice" => calc.twice = part

\* "-/a " is sanitized to "a", and "a" to itself.
C26_Witness ==
    /\ calc.pc = "twice"
    /\ calc.value = <<"-", "/", "a", " ">>
    /\ calc.once = <<"a">>
    /\ calc.twice = <<"a">>

----------------------------------------------------------------------------
(* The PNG and PDF generators of exportSlides *)

\* The decks exported: clicksTotal of each slide.
Decks == {<<1, 0>>, <<2, 0>>, <<0, 1, 0>>}

\* The members of a set of numbers, in ascending order.
RECURSIVE Ascending(_)
Ascending(S) ==
    IF S = {} THEN <<>>
    ELSE LET least == CHOOSE n \in S : \A m \in S : n <= m
         IN  <<least>> \o Ascending(S \ {least})

\* The ranges a deck of total slides is exported with.
ExportRanges(total) == {Ascending(S) : S \in SUBSET (1..total) \ {{}}}

\* id.split('-')[0]
RECURSIVE BeforeDash(_)
BeforeDash(id) ==
    IF id = <<>> \/ Head(id) = "-" THEN <<>> ELSE <<Head(id)>> \o BeforeDash(Tail(id))

\* +string: 0 of the empty string, NaN (here -1) of what is no numeral
ToNumber(string) ==
    IF string = <<>> THEN 0 ELSE IF IsDigits(string) THEN NumberOf(string) ELSE -1

\* The print route's containers, their ids "<no>-<clicks>": of the slides of
\* the range or of the deck, one for each click state with print=clicks.
RECURSIVE PrintContainers(_, _, _, _)
PrintContainers(deck, shown, withClicks, no) ==
    IF no > Len(deck) THEN <<>>
    ELSE (IF no \in shown
          THEN [clicks \in 1..((IF withClicks THEN deck[no] ELSE 0) + 1) |->
                    NumeralOf(no) \o <<"-">> \o NumeralOf(clicks - 1)]
          ELSE <<>>)
         \o PrintContainers(deck, shown, withClicks, no + 1)

\* The step of the page after ArrowRight was pressed.
PressArrowRight(deck, step) ==
    IF step.clicks < deck[step.no]
    THEN [no |-> step.no, clicks |-> step.clicks + 1]
    ELSE IF step.no < Len(deck)
         THEN [no |-> step.no + 1, clicks |-> 0]
         ELSE step

\* page.url() at a step: the route of the slide, its query with clicks=<n>
\* past the first step.
PageUrl(step) ==
    [no |-> step.no, clicks |-> IF step.clicks > 0 THEN NumeralOf(step.clicks) ELSE <<>>]

\* url.match(/clicks=([1-9]\d*)/)?.[1], undefined being the empty string
getClicksFromUrl(url) ==
    IF url.clicks # <<>> /\ url.clicks[1] \in Digits \ {"0"} /\ IsDigits(url.clicks)
    THEN url.clicks ELSE <<>>

PngSuffix == <<".", "p", "n", "g">>

\* What the output directory may hold before an export.
PriorFiles == {<<"9">> \o PngSuffix, <<"1", "-", "1">> \o PngSuffix, <<"n", "o", "t", "e", "s">>}

ExportConfigs(format) ==
    UNION {[format : {format}, deck : {deck}, pages : ExportRanges(Len(deck)),
            withClicks : BOOLEAN, ranged : BOOLEAN] : deck \in Decks}

ExportStart(cfg, dir) ==
    [pc |-> "start", cfg |-> cfg, dir |-> dir, runs |-> 1, error |-> "none",
     containers |-> <<>>, i |-> 0, result |-> <<>>,
     idx |-> 0, no |-> 0, clicks |-> <<>>, step |-> [no |-> 0, clicks |-> 0],
     buffers |-> <<>>, merged |-> <<>>]

InitPng ==
    /\ ServiceIdle
    /\ processExitCode = 0
    /\ client = Idle
    /\ calc = Idle
    /\ exp \in {ExportStart(cfg, dir) : cfg \in ExportConfigs("png"), dir \in SUBSET PriorFiles}

\* genPagePng making the directory without removing it first.
PngRecreateKeeping ==
    /\ exp.pc = "start"
    /\ exp' = [exp EXCEPT !.pc = "print"]
    /\ UNCHANGED <<now, jobVars, rec, processExitCode, client, calc>>

\* genPagePng: fs.rm(writeToDisk, { force, recursive }), fs.mkdir(writeToDisk)
PngRecreate ==
    /\ exp.pc = "start"
    /\ exp' = [exp EXCEPT !.pc = "print", !.dir = {}]
    /\ UNCHANGED <<now, jobVars, rec, processExitCode, client, calc>>

\* genPagePngOnePiece: go('print') and the containers of the page, or the
\* navigation times out
PngGoPrint ==
    /\ exp.pc = "print"
    /\ \/ LET shown == IF exp.cfg.ranged THEN {exp.cfg.pages[k] : k \in DOMAIN exp.cfg.pages}
                        ELSE 1..Len(exp.cfg.deck)
          IN  exp' = [exp EXCEPT !.pc = "containers", !.i = 0, !.result = <<>>,
                          !.containers = PrintContainers(exp.cfg.deck, shown,
                                                         exp.cfg.withClicks, 1)]
       \/ exp' = [exp EXCEPT !.pc = "failed", !.error = "page.goto: Timeout"]
    /\ UNCHANGED <<now, jobVars, rec, processExitCode, client, calc>>

\* One turn of genPagePngOnePiece's loop: a container outside the range is
\* passed over, another is written as a file, or its screenshot throws
PngContainer ==
    /\ exp.pc = "containers"
    /\ exp.i < Len(exp.containers)
    /\ LET id == exp.containers[exp.i + 1]
           slideNo == ToNumber(BeforeDash(id))
           filename == (IF exp.cfg.withClicks THEN id ELSE NumeralOf(slideNo)) \o PngSuffix
       IN  IF \A k \in DOMAIN exp.cfg.pages : exp.cfg.pages[k] # slideNo
           THEN exp' = [exp EXCEPT !.i = @ + 1]
           ELSE \/ exp' = [exp EXCEPT !.i = @ + 1, !.result = Append(@, filename),
                                      !.dir = @ \cup {filename}]
                \/ exp' = [exp EXCEPT !.pc = "failed", !.error = "locator.screenshot: Timeout"]
    /\ UNCHANGED <<now, jobVars, rec, processExitCode, client, calc>>

\* The loop is over: genPagePng returns
PngDone ==
    /\ exp.pc = "containers"
    /\ exp.i = Len(exp.containers)
    /\ exp' = [exp EXCEPT !.pc = "done"]
    /\ UNCHANGED <<now, jobVars, rec, processExitCode, client, calc>>

\* exportSlides is called again with the same options and output
PngAgain ==
    /\ exp.pc \in {"done", "failed"}
    /\ exp.runs < MaxRuns
    /\ exp' = [ExportStart(exp.cfg, exp.dir) EXCEPT !.runs = exp.runs + 1]
    /\ UNCHANGED <<now, jobVars, rec, processExitCode, client, calc>>

NextPng ==
    \/ PngRecreate
    \/ PngGoPrint
    \/ PngContainer
    \/ PngDone
    \/ PngAgain

SpecPng == InitPng /\ [][NextPng]_vars

InitPdf ==
    /\ ServiceIdle
    /\ processExitCode = 0
    /\ client = Idle
    /\ calc = Idle
    /\ exp \in {[ExportStart(cfg, {}) EXCEPT !.pc = "slides"] :
                   cfg \in {c \in ExportConfigs("pdf") : ~c.ranged}}

\* genPagePdfPerSlide: for (const i of pages) genPageWithClicks(genPdfBuffer, i)
PdfNextSlide ==
    /\ exp.pc = "slides"
    /\ exp' = IF exp.idx < Len(exp.cfg.pages)
              THEN [exp EXCEPT !.pc = "go", !.no = exp.cfg.pages[exp.idx + 1],
                               !.clicks = <<>>]
              ELSE [exp EXCEPT !.pc = "merge"]
    /\ UNCHANGED <<now, jobVars, rec, processExitCode, client, calc>>

\* genPdfBuffer(no, clicks): go(no, clicks), page.pdf() of the step shown,
\* buffers.push(pdf); or the navigation times out
GenPdfBuffer ==
    /\ exp.pc = "go"
    /\ \/ LET step == [no |-> exp.no, clicks |-> ToNumber(exp.clicks)]
          IN  exp' = [exp EXCEPT !.pc = IF exp.cfg.withClicks THEN "press" ELSE "slides",
                                 !.idx = IF exp.cfg.withClicks THEN @ ELSE @ + 1,
                                 !.step = step,
                                 !.buffers = Append(@, <<step.no, step.clicks>>)]
       \/ exp' = [exp EXCEPT !.pc = "failed", !.error = "page.goto: Timeout"]
    /\ UNCHANGED <<now, jobVars, rec, processExitCode, client, calc>>

\* genPageWithClicks going on only from the slide's first step.
GoesOnWithClicksFromFirst(clicks, urlClicks) ==
    urlClicks # <<>> /\ clicks = <<>>

\* genPageWithClicks: if (_clicks && clicks !== _clicks)
GoesOnWithClicks(clicks, urlClicks) ==
    urlClicks # <<>> /\ clicks # urlClicks

\* genPageWithClicks after fn: ArrowRight, the clicks of the page's URL, and
\* the same slide again with these clicks or the next slide
PdfPress ==
    /\ exp.pc = "press"
    /\ LET step == PressArrowRight(exp.cfg.deck, exp.step)
           urlClicks == getClicksFromUrl(PageUrl(step))
       IN  exp' = IF GoesOnWithClicks(exp.clicks, urlClicks)
                  THEN [exp EXCEPT !.pc = "go", !.step = step, !.clicks = urlClicks]
                  ELSE [exp EXCEPT !.pc = "slides", !.step = step, !.idx = @ + 1]
    /\ UNCHANGED <<now, jobVars, rec, processExitCode, client, calc>>

\* The one-page PDFs copied into the merged PDF, page by page, and saved
PdfMerge ==
    /\ exp.pc = "merge"
    /\ exp' = [exp EXCEPT !.pc = "done", !.merged = exp.buffers]
    /\ UNCHANGED <<now, jobVars, rec, processExitCode, client, calc>>

NextPdf ==
    \/ PdfNextSlide
    \/ GenPdfBuffer
    \/ PdfPress
    \/ PdfMerge

SpecPdf == InitPdf /\ [][NextPdf]_vars

\* The files <no>.png of the slides of a range.
PngFilesOf(pages) == {NumeralOf(pages[k]) \o PngSuffix : k \in DOMAIN pages}

\* C27: a one-piece PNG export without clicks leaves in the output directory
\* the files <no>.png of the slides of the range and nothing else (1.png to
\* N.png for the range 1..N), whatever the directory held before and however
\* often the export ran against it; while it runs the directory holds
\* nothing but such files.
C27_PngDirectoryIsTheRange ==
    ~exp.cfg.withClicks =>
        /\ exp.pc = "done" => exp.dir = PngFilesOf(exp.cfg.pages)
        /\ exp.pc \in {"print", "containers", "failed"} =>
               exp.dir \subseteq PngFilesOf(exp.cfg.pages)

\* A second export of slides 1-3 into a directory that held 9.png and notes
\* has left 1.png, 2.png and 3.png.
C27_Witness ==
    /\ ~exp.cfg.withClicks
    /\ exp.cfg.pages = <<1, 2, 3>>
    /\ exp.pc = "done"
    /\ exp.runs = 2
    /\ exp.dir = {<<"1">> \o PngSuffix, <<"2">> \o PngSuffix, <<"3">> \o PngSuffix}

\* The click states of the slides of a range, in order.
RECURSIVE ClickStates(_, _)
ClickStates(deck, pages) ==
    IF pages = <<>> THEN <<>>
    ELSE [i \in 1..(deck[Head(pages)] + 1) |-> <<Head(pages), i - 1>>]
         \o ClickStates(deck, Tail(pages))

\* C28: the pages of a per-slide PDF with clicks are the click states of the
\* slides of the range, in the range's order and in the order of the clicks,
\* each once: for a deck of two slides whose first has the 2 click states 0
\* and 1, the 3 pages (1,0), (1,1), (2,0).
C28_PagesAreTheClickStates ==
    exp.cfg.withClicks =>
        /\ IsPrefix(exp.buffers, ClickStates(exp.cfg.deck, exp.cfg.pages))
        /\ exp.pc = "done" =>
               /\ exp.merged = ClickStates(exp.cfg.deck, exp.cfg.pages)
               /\ (exp.cfg.deck = <<1, 0>> /\ exp.cfg.pages = <<1, 2>>) =>
                      exp.merged = <<<<1, 0>>, <<1, 1>>, <<2, 0>>>>

\* The PDF of the deck of two slides whose first has the click states 0 and 1
\* is merged of (1,0), (1,1) and (2,0).
C28_Witness ==
    /\ exp.pc = "done"
    /\ exp.cfg.withClicks
    /\ exp.cfg.deck = <<1, 0>>
    /\ exp.cfg.pages = <<1, 2>>
    /\ exp.merged = <<<<1, 0>>, <<1, 1>>, <<2, 0>>>>

----------------------------------------------------------------------------
(* The job service and the process it runs in *)

\* waitForSlideStabilized in a running job: an element named by data-waitfor
\* never shows, the rejection is logged and process.exitCode set
JobWaitForFails(id) ==
    /\ id \in DOMAIN jobTasks
    /\ jobTasks[id].pc = "running"
    /\ processExitCode' = 1
    /\ UNCHANGED <<now, jobVars, rec, exp, client, calc>>

NextShared ==
    \/ Tick(1)
    \/ RequestPost(ValidBody)
    \/ HandlePost(ValidBody)
    \/ \E id \in Uuids : JobWaitForFails(id)
    \/ \E id \in Uuids : JobTaskSettle(id)
    \/ \E id \in Uuids : RequestJob(id)

SpecShared == Init /\ [][NextShared]_vars

\* Every record stored under an id is stored by the POST that makes the job
\* or by the task of that job, once each.
RegistryWrittenByPostAndOwnTask ==
    \A id \in DOMAIN stored :
        /\ id \in DOMAIN jobTasks
        /\ stored[id][1].status = "running"
        /\ Len(stored[id]) = IF jobTasks[id].pc = "settled" THEN 2 ELSE 1
        /\ \A k \in 1..Len(stored[id]) :
               /\ stored[id][k].file = jobTasks[id].output
               /\ stored[id][k].startedAt = jobTasks[id].startedAt

\* C29: the jobs share no mutable state but the registry: no step of a job's
\* pipeline, the failure path of its stabilizer included, changes the state of
\* the process, and an entry of the registry is stored by the POST that makes
\* it and by the job's own task, once each, and by nothing else.
C29_JobsShareOnlyTheRegistry ==
    /\ processExitCode = 0
    /\ RegistryWrittenByPostAndOwnTask

----------------------------------------------------------------------------
(* The export page: the client of the job service *)

\* The saved job of an earlier visit, and the jobs the service makes.
SavedJobId == "job0"

NewJobId(n) == IF n = 1 THEN "job1" ELSE "job2"

\* What the service answers GET /__slidev/export/video/<id> with, or the
\* fetch failing ("network").
StatusReplies == {"404", "500", "network", "running", "done", "error"}

\* The last status the service has answered for a job, as the client saw it.
Known(known, id, reply) ==
    IF reply \in {"running", "done", "error"} THEN [known EXCEPT ![id] = reply] ELSE known

NoReply == [flow |-> "none", id |-> "", status |-> "none"]

ClientStart(saved) ==
    [storage |-> saved, videoExportJobId |-> "", videoDownloadReady |-> FALSE,
     videoExporting |-> FALSE, videoExportError |-> "", videoExportStatus |-> "",
     mount |-> [pc |-> "mounting", id |-> "", polls |-> 0],
     mp4 |-> [pc |-> "idle", id |-> "", polls |-> 0],
     reply |-> NoReply, exports |-> 0, downloads |-> 0,
     known |-> [id \in {SavedJobId, NewJobId(1), NewJobId(2)} |-> "none"]]

InitClient ==
    /\ ServiceIdle
    /\ processExitCode = 0
    /\ exp = Idle
    /\ calc = Idle
    /\ client \in {ClientStart(saved) : saved \in {"", SavedJobId}}

\* updateStoredVideoJobId(jobId): the ref, and the item of localStorage set
\* or removed
updateStoredVideoJobId(c, jobId) ==
    [c EXCEPT !.videoExportJobId = jobId, !.storage = jobId]

\* The 404 of a status query unready-ing the download and keeping the job.
NotFoundKeepingJob(c) == [c EXCEPT !.videoDownloadReady = FALSE]

\* queryVideoJobStatus on a 404, before it throws
NotFound(c) == [updateStoredVideoJobId(c, "") EXCEPT !.videoDownloadReady = FALSE]

\* queryVideoJobStatus: the refs after the reply
Queried(c, reply) ==
    CASE reply = "404" -> NotFound(c)
      [] reply \in {"500", "network"} -> c
      [] reply = "running" -> [c EXCEPT !.videoExportStatus = "exporting"]
      [] OTHER -> [c EXCEPT !.videoExportStatus = reply]

\* queryVideoJobStatus: the message of the error it throws, or "none"
QueryThrows(reply) ==
    CASE reply = "404" -> "Export job not found or expired. Please export again."
      [] reply = "500" -> "Failed to query mp4 export status (500)"
      [] reply = "network" -> "Failed to fetch"
      [] OTHER -> "none"

\* onMounted up to its query of the saved job
ClientMounted ==
    /\ client.mount.pc = "mounting"
    /\ client' = IF client.storage = ""
                 THEN [client EXCEPT !.mount.pc = "end", !.reply = NoReply]
                 ELSE [updateStoredVideoJobId(client, client.storage) EXCEPT
                          !.videoExportError = "", !.reply = NoReply,
                          !.mount = [pc |-> "query", id |-> client.storage, polls |-> 0]]
    /\ UNCHANGED <<now, jobVars, rec, processExitCode, exp, calc>>

\* onMounted: the saved job's status is answered
ClientMountQuery(reply) ==
    /\ client.mount.pc = "query"
    /\ LET q == [Queried(client, reply) EXCEPT
                    !.reply = [flow |-> "mount", id |-> client.mount.id, status |-> reply],
                    !.known = Known(@, client.mount.id, reply)]
       IN  client' =
             CASE QueryThrows(reply) # "none" ->
                    [q EXCEPT !.videoExportError = QueryThrows(reply), !.mount.pc = "end"]
               [] reply = "running" ->
                    [q EXCEPT !.videoExporting = TRUE, !.mount.pc = "poll"]
               [] reply = "done" ->
                    [q EXCEPT !.videoDownloadReady = TRUE, !.videoExporting = FALSE,
                              !.mount.pc = "end"]
               [] OTHER ->
                    [q EXCEPT !.videoExporting = FALSE,
                              !.videoExportError = "MP4 export failed", !.mount.pc = "end"]
    /\ UNCHANGED <<now, jobVars, rec, processExitCode, exp, calc>>

\* A turn of pollVideoJob in onMounted (flow "mount") or in mp4() (flow
\* "mp4"), and the catch of the caller when it throws
ClientPoll(flow, reply) ==
    /\ client[flow].pc = "poll"
    /\ reply = "running" => client[flow].polls < MaxPolls
    /\ LET q == [Queried(client, reply) EXCEPT
                    !.reply = [flow |-> flow, id |-> client[flow].id, status |-> reply],
                    !.known = Known(@, client[flow].id, reply)]
           over == IF flow = "mount" THEN "end" ELSE "idle"
           thrown == CASE QueryThrows(reply) # "none" -> QueryThrows(reply)
                       [] reply = "error" -> "MP4 export failed"
                       [] OTHER -> "none"
           caught == [q EXCEPT ![flow].pc = over, !.videoExportError = thrown,
                               !.videoExporting =
                                   IF flow = "mp4" \/ reply = "error" THEN FALSE ELSE @]
       IN  client' =
             CASE thrown # "none" -> caught
               [] reply = "done" ->
                    [q EXCEPT ![flow].pc = over, !.videoDownloadReady = TRUE,
                              !.videoExporting = FALSE,
                              !.downloads = IF flow = "mp4" THEN @ + 1 ELSE @]
               [] OTHER -> [q EXCEPT ![flow].polls = @ + 1]
    /\ UNCHANGED <<now, jobVars, rec, processExitCode, exp, calc>>

\* mp4(): the click on the export button of the mounted page, up to the POST
ClientClickMp4 ==
    /\ client.mount.pc # "mounting"
    /\ client.mp4.pc = "idle"
    /\ client.exports < MaxExports
    /\ ~client.videoExporting
    /\ client' = [updateStoredVideoJobId(client, "") EXCEPT
                      !.videoExporting = TRUE, !.videoExportError = "",
                      !.videoExportStatus = "starting", !.videoDownloadReady = FALSE,
                      !.exports = @ + 1, !.reply = NoReply,
                      !.mp4 = [pc |-> "post", id |-> "", polls |-> 0]]
    /\ UNCHANGED <<now, jobVars, rec, processExitCode, exp, calc>>

\* mp4(): the POST is answered with a job id, or refused
ClientPosted(ok) ==
    /\ client.mp4.pc = "post"
    /\ client' = IF ok
                 THEN [updateStoredVideoJobId(client, NewJobId(client.exports)) EXCEPT
                          !.reply = NoReply,
                          !.mp4 = [pc |-> "poll", id |-> NewJobId(client.exports),
                                   polls |-> 0]]
                 ELSE [client EXCEPT !.videoExportError = "Failed to start mp4 export (400)",
                                     !.videoExporting = FALSE, !.reply = NoReply,
                                     !.mp4.pc = "idle"]
    /\ UNCHANGED <<now, jobVars, rec, processExitCode, exp, calc>>

NextClient ==
    \/ ClientMounted
    \/ \E reply \in StatusReplies : ClientMountQuery(reply)
    \/ \E flow \in {"mount", "mp4"}, reply \in StatusReplies : ClientPoll(flow, reply)
    \/ ClientClickMp4
    \/ \E ok \in BOOLEAN : ClientPosted(ok)

SpecClient == InitClient /\ [][NextClient]_vars

\* C30: when a status query of the client is answered 404, the client has
\* cleared the saved job (localStorage and videoExportJobId), has
\* videoDownloadReady false, polls that job no more, and shows the error
\* that asks to export again.
C30_NotFoundForgetsTheJob ==
    client.reply.status = "404" =>
        /\ client.storage = ""
        /\ client.videoExportJobId = ""
        /\ ~client.videoDownloadReady
        /\ client[client.reply.flow].pc \notin {"query", "poll"}
        /\ \A flow \in {"mount", "mp4"} :
               client[flow].pc \in {"query", "poll"} => client[flow].id # client.reply.id
        /\ client.videoExportError = "Export job not found or expired. Please export again."

\* The saved job, found running at first, is answered 404 in the poll.
C30_Witness ==
    /\ client.reply = [flow |-> "mount", id |-> SavedJobId, status |-> "404"]
    /\ client.mount.polls = 1
    /\ client.mount.pc = "end"
    /\ client.storage = ""

----------------------------------------------------------------------------
(* exportSlides: what it acquires, the stabilizer, and how it ends *)

MaxExportSlides == 2

\* Where an export fails, if it does: the preconditions of genPageMp4, the
\* page.goto of a slide, nextStep() of the recorder, the exit of the encoder.
ExportFaults(format) ==
    IF format = "mp4" THEN {"none", "precondition", "navigation", "advance", "encoder"}
    ELSE {"none", "navigation"}

\* The element with data-waitfor of each slide: none, one whose target shows,
\* one whose target never shows.
RunConfigs ==
    UNION {[format : {format}, slides : {n},
            waitfor : [1..n -> {"none", "shows", "never"}],
            fault : ExportFaults(format)] :
           format \in {"pdf", "png", "mp4"}, n \in 1..MaxExportSlides}

RunStart(cfg) ==
    [pc |-> "start", cfg |-> cfg, browser |-> "none", timer |-> "none",
     no |-> 0, captured |-> <<>>, stabilized |-> <<>>, logged |-> 0,
     outcome |-> "pending"]

InitRun ==
    /\ ServiceIdle
    /\ processExitCode = 0
    /\ client = Idle
    /\ calc = Idle
    /\ exp \in {RunStart(cfg) : cfg \in RunConfigs}

RunKeeps == UNCHANGED <<now, jobVars, rec, client, calc>>

\* chromium.launch, newContext, newPage, progress.start
RunLaunch ==
    /\ exp.pc = "start"
    /\ exp' = [exp EXCEPT !.pc = "generate", !.browser = "open", !.timer = "running"]
    /\ UNCHANGED processExitCode
    /\ RunKeeps

\* The generator of the format is entered; genPageMp4 checks its options
RunGenerate ==
    /\ exp.pc = "generate"
    /\ exp' = IF exp.cfg.fault = "precondition"
              THEN [exp EXCEPT !.pc = "thrown"]
              ELSE [exp EXCEPT !.pc = "go", !.no = 1]
    /\ UNCHANGED processExitCode
    /\ RunKeeps

\* go / goPlay up to the stabilizer: page.goto may time out
RunGo ==
    /\ exp.pc = "go"
    /\ exp' = IF exp.cfg.fault = "navigation" /\ exp.no = exp.cfg.slides
              THEN [exp EXCEPT !.pc = "thrown"]
              ELSE [exp EXCEPT !.pc = "loading"]
    /\ UNCHANGED processExitCode
    /\ RunKeeps

\* waitForSlideStabilized: .slidev-slide-loading detached
StabLoading ==
    /\ exp.pc = "loading"
    /\ exp' = [exp EXCEPT !.pc = "waitfor", !.stabilized = Append(@, "loading")]
    /\ UNCHANGED processExitCode
    /\ RunKeeps

\* The data-waitfor step rethrowing what waitFor rejects with.
StabWaitForAborting ==
    /\ exp.pc = "waitfor"
    /\ exp' = IF exp.cfg.waitfor[exp.no] = "never"
              THEN [exp EXCEPT !.pc = "thrown", !.logged = @ + 1]
              ELSE [exp EXCEPT !.pc = "frames", !.stabilized = Append(@, "waitfor")]
    /\ processExitCode' = IF exp.cfg.waitfor[exp.no] = "never" THEN 1 ELSE processExitCode
    /\ RunKeeps

\* waitForSlideStabilized: [data-waitfor], the rejection caught
StabWaitFor ==
    /\ exp.pc = "waitfor"
    /\ exp' = [exp EXCEPT !.pc = "frames", !.stabilized = Append(@, "waitfor"),
                          !.logged = IF exp.cfg.waitfor[exp.no] = "never" THEN @ + 1 ELSE @]
    /\ processExitCode' = IF exp.cfg.waitfor[exp.no] = "never" THEN 1 ELSE processExitCode
    /\ RunKeeps

\* waitForSlideStabilized: frames loaded
StabFrames ==
    /\ exp.pc = "frames"
    /\ exp' = [exp EXCEPT !.pc = "mermaid", !.stabilized = Append(@, "frames")]
    /\ UNCHANGED processExitCode
    /\ RunKeeps

\* waitForSlideStabilized: Mermaid graphs rendered
StabMermaid ==
    /\ exp.pc = "mermaid"
    /\ exp' = [exp EXCEPT !.pc = "monaco", !.stabilized = Append(@, "mermaid")]
    /\ UNCHANGED processExitCode
    /\ RunKeeps

\* waitForSlideStabilized: the Monaco aria container hidden; it returns
StabMonaco ==
    /\ exp.pc = "monaco"
    /\ exp' = [exp EXCEPT !.pc = "capture", !.stabilized = Append(@, "monaco")]
    /\ UNCHANGED processExitCode
    /\ RunKeeps

\* The slide is captured (page.pdf, screenshot, frames of the recording);
\* the recorder then advances with nextStep(), the others go to the next slide
RunCapture ==
    /\ exp.pc = "capture"
    /\ exp' = LET shot == [exp EXCEPT !.captured = Append(@, exp.no), !.stabilized = <<>>]
              IN  IF exp.no < exp.cfg.slides
                  THEN IF exp.cfg.fault = "advance"
                       THEN [shot EXCEPT !.pc = "thrown"]
                       ELSE [shot EXCEPT !.pc = "go", !.no = @ + 1]
                  ELSE IF exp.cfg.fault = "encoder"
                       THEN [shot EXCEPT !.pc = "thrown"]
                       ELSE [shot EXCEPT !.pc = "finish"]
    /\ UNCHANGED processExitCode
    /\ RunKeeps

\* exportSlides after its generator: progress.stop(), browser.close(), return
RunFinish ==
    /\ exp.pc = "finish"
    /\ exp' = [exp EXCEPT !.pc = "end", !.timer = "cleared", !.browser = "closed",
                          !.outcome = "resolved"]
    /\ UNCHANGED processExitCode
    /\ RunKeeps

\* The generator threw: exportSlides rejects with what it threw
RunReject ==
    /\ exp.pc = "thrown"
    /\ exp' = [exp EXCEPT !.pc = "end", !.outcome = "rejected"]
    /\ UNCHANGED processExitCode
    /\ RunKeeps

NextRun ==
    \/ RunLaunch
    \/ RunGenerate
    \/ RunGo
    \/ StabLoading
    \/ StabWaitFor
    \/ StabFrames
    \/ StabMermaid
    \/ StabMonaco
    \/ RunCapture
    \/ RunFinish
    \/ RunReject

SpecRun == InitRun /\ [][NextRun]_vars

\* The slides whose data-waitfor target never shows, among the first n.
NeverShown(cfg, n) == {k \in 1..n : k <= cfg.slides /\ cfg.waitfor[k] = "never"}

\* C31: a data-waitfor target that never shows is logged and sets the exit
\* code of the process to 1, and aborts nothing: the steps of the stabilizer
\* after it run, the slide is captured, and an export without another fault
\* resolves.
C31_WaitForFailureDoesNotAbort ==
    /\ exp.pc \in {"frames", "mermaid", "monaco", "capture"} =>
           /\ exp.logged = Cardinality(NeverShown(exp.cfg, exp.no))
           /\ processExitCode = (IF NeverShown(exp.cfg, exp.no) # {} THEN 1 ELSE 0)
    /\ exp.pc = "capture" =>
           exp.stabilized = <<"loading", "waitfor", "frames", "mermaid", "monaco">>
    /\ exp.pc = "thrown" =>
           /\ exp.cfg.fault # "none"
           /\ exp.cfg.fault = "navigation" => exp.no \notin {exp.captured[k] : k \in DOMAIN exp.captured}
    /\ (exp.pc = "end" /\ exp.cfg.fault = "none") =>
           /\ exp.outcome = "resolved"
           /\ exp.captured = [k \in 1..exp.cfg.slides |-> k]
           /\ exp.logged = Cardinality(NeverShown(exp.cfg, exp.cfg.slides))

\* An export of two slides, the first with a target that never shows, has
\* captured both and resolved with the exit code set.
C31_Witness ==
    /\ exp.pc = "end"
    /\ exp.cfg.slides = 2
    /\ exp.cfg.waitfor[1] = "never"
    /\ exp.cfg.fault = "none"
    /\ exp.captured = <<1, 2>>
    /\ exp.outcome = "resolved"
    /\ processExitCode = 1

\* C38: however exportSlides ends, resolved or rejected, the browser it
\* launched is closed and the timer of its progress reporter is cleared.
C38_ReleasedOnEveryExit ==
    exp.pc = "end" =>
        /\ exp.browser \in {"none", "closed"}
        /\ exp.timer \in {"none", "cleared"}

----------------------------------------------------------------------------
(* The encoder's exit and the outcome of a recording *)

\* What holds of a recording however it fails: it succeeds only on an exit
\* code of 0, and its job is stored as done or as error accordingly.
ExitCodeDecidesSuccess ==
    /\ rec.pc = "done" => (rec.exitCode = 0 /\ rec.thrown = "none")
    /\ (rec.ffmpeg = "exited" /\ rec.exitCode # 0) => rec.pc \in {"catch", "drain", "failed"}
    /\ (rec.pc = "failed" /\ rec.exitCode = 0) => rec.error \in CaptureErrors
    /\ rec.job.status = "done" => (rec.pc = "done" /\ rec.exitCode = 0)
    /\ rec.job.status = "error" => (rec.pc # "done" /\ rec.job.error = rec.thrown)
    /\ (rec.pc = "failed" /\ rec.exitCode # 0) => rec.job.status # "done"

\* The error of the encoder's exit, its message made of the trimmed stderr.
ThrowsEncoderError ==
    /\ rec.thrown = FfmpegExitError(rec.exitCode)
    /\ rec.message = (IF Trim(rec.ffmpegLogs) # <<>> THEN Trim(rec.ffmpegLogs)
                      ELSE FfmpegExitMessage(rec.exitCode, <<>>))
    /\ rec.job.status = "error" => rec.job.message = rec.message

\* C32 as stated: the recording succeeds if and only if the encoder exits
\* with code 0, and on every non-zero exit the export fails with the error
\* whose message is the trimmed stderr, or the generic message when that is
\* empty, and the job is stored as error.
C32_NonZeroExitThrowsStderr ==
    /\ ExitCodeDecidesSuccess
    /\ (rec.pc = "failed" /\ rec.exitCode # 0) => ThrowsEncoderError

\* C32: the recording succeeds only if the encoder exits with code 0; on a
\* non-zero exit it fails and its job is stored as error, with the error whose
\* message is the trimmed stderr, or the generic message when that is empty,
\* when nothing was thrown while capturing, and with the error thrown while
\* capturing otherwise.
C32_NonZeroExitFailsTheExport ==
    /\ ExitCodeDecidesSuccess
    /\ (rec.pc = "failed" /\ rec.exitCode # 0 /\ rec.error \notin CaptureErrors) =>
           ThrowsEncoderError
    /\ (rec.pc = "failed" /\ rec.exitCode # 0 /\ rec.error \in CaptureErrors) =>
           rec.thrown = rec.error

\* The encoder exited with code 1 and blank stderr after the final frame: the
\* job is stored as error with the generic message.
C32_Witness ==
    /\ rec.pc = "failed"
    /\ rec.exitCode = 1
    /\ rec.ffmpegLogs = <<" ", "\n">>
    /\ rec.job.status = "error"
    /\ rec.job.error = FfmpegExitError(1)
    /\ rec.job.message = FfmpegExitMessage(1, <<>>)
    /\ Len(rec.job.message) = 34

----------------------------------------------------------------------------
(* The catch-up and the pacing of the recorder *)

\* catchUpFrames is running.
CatchingUp == rec.pc \in {"catchUp", "catchUpDrainWait"}

\* catchUpFrames has returned and nothing was captured since.
CaughtUp == rec.pc \in {"pace", "endStdin"} \/ (rec.pc = "settle" /\ rec.frame = "written")

\* expectedFrames is max(1, floor(elapsedMs * fps / 1000)) of the time the
\* catch-up sampled.
ExpectedOfSampledClock ==
    /\ rec.expectedFrames >= 1
    /\ rec.expectedFrames > 1 => rec.expectedFrames * 1000 <= rec.elapsedMs * rec.cfg.videoFps
    /\ (rec.expectedFrames + 1) * 1000 > rec.elapsedMs * rec.cfg.videoFps
    /\ rec.elapsedMs <= now - rec.startedAt

\* C33: every write of a captured frame, the initial and the final one
\* included, is followed by a catch-up that samples the clock once, writes the
\* frame again only while writtenFrames < expectedFrames = max(1,
\* floor(elapsedMs * fps / 1000)), and returns with writtenFrames >=
\* expectedFrames; writtenFrames never decreases.
C33_CatchUpReachesExpectedFrames ==
    /\ []((CatchingUp \/ CaughtUp) => ExpectedOfSampledClock)
    /\ [](CaughtUp => rec.writtenFrames >= rec.expectedFrames)
    /\ [][/\ rec'.writtenFrames >= rec.writtenFrames
          /\ (rec.frame = "captured" /\ rec'.frame = "written" /\ rec'.pc # "catch") =>
                 rec'.pc \in {"catchUp", "drainWait"}
          /\ (rec.pc = "drainWait" /\ rec'.pc # "catch") => rec'.pc = "catchUp"
          /\ (CatchingUp /\ rec'.pc \in {"catchUp", "catchUpDrainWait"}) =>
                 /\ rec'.expectedFrames = rec.expectedFrames
                 /\ rec'.elapsedMs = rec.elapsedMs
          /\ (rec.pc = "catchUp" /\ rec'.stdin.writes > rec.stdin.writes) =>
                 rec.writtenFrames < rec.expectedFrames]_vars

\* The final frame of a slow recording under backpressure was duplicated up to
\* the clock its catch-up sampled, which the drains have since left behind.
C33_Witness ==
    /\ rec.pc = "endStdin"
    /\ rec.cfg.shotMs = 80
    /\ rec.cfg.drainMs = 15
    /\ rec.writtenFrames = rec.expectedFrames
    /\ rec.expectedFrames > 10
    /\ rec.elapsedMs < now - rec.startedAt

\* sleepMs of captureAndWriteFrame, times fps: what is left to the time the
\* next frame is due.
SleepTimesFps == (rec.writtenFrames + 1) * 1000 - (now - rec.startedAt) * rec.cfg.videoFps

\* C34 as stated: whenever captureAndWriteFrame returns, (writtenFrames + 1)
\* * frameInterval <= the time elapsed since startedAt.
C34_NeverAheadOfWallClock ==
    [][rec.pc = "pace" =>
         (rec'.writtenFrames + 1) * 1000 <= (now' - rec.startedAt) * rec.cfg.videoFps]_vars

\* C34: captureAndWriteFrame sleeps max(0, (writtenFrames + 1) *
\* frameInterval - elapsed) on a timer of whole milliseconds, not at all when
\* that is not positive, so that whenever it returns (writtenFrames + 1) *
\* frameInterval is less than a millisecond past the time elapsed since
\* startedAt.
C34_AheadByLessThanAMillisecond ==
    [][rec.pc = "pace" =>
         /\ rec'.writtenFrames = rec.writtenFrames
         /\ (rec'.writtenFrames + 1) * 1000 < (now' - rec.startedAt + 1) * rec.cfg.videoFps
         /\ SleepTimesFps <= 0 => now' = now
         /\ SleepTimesFps > 0 =>
                /\ now' > now
                /\ (now' - now) * rec.cfg.videoFps > SleepTimesFps - rec.cfg.videoFps
                /\ (now' - now) * rec.cfg.videoFps <= SleepTimesFps + rec.cfg.videoFps]_vars

\* captureAndWriteFrame has returned in the transition wait a fraction of a
\* millisecond before the next frame is due.
C34_Witness ==
    /\ rec.pc = "checkStep"
    /\ rec.cfg.videoFps = 30
    /\ rec.writtenFrames > 2
    /\ SleepTimesFps > 0
    /\ SleepTimesFps < rec.cfg.videoFps

----------------------------------------------------------------------------
(* The order of the frames and the backpressure of the encoder *)

\* C35: every write hands the encoder the frame captured last, so the frames
\* reach it in the order of their capture, none skipped and none after a
\* later one; and from a write that returned false until 'drain', the
\* recorder writes nothing and captures nothing, so that at most one write
\* waits for 'drain'.
C35_InOrderUnderBackpressure ==
    /\ [](rec.needDrain => rec.pc \in {"drainWait", "catchUpDrainWait", "catch", "drain", "failed"})
    /\ [](rec.lastWritten \in {rec.shots, rec.shots - 1})
    /\ [][/\ rec'.stdin.writes > rec.stdin.writes =>
                 /\ rec'.stdin.writes = rec.stdin.writes + 1
                 /\ rec'.lastWritten = rec.shots
                 /\ rec'.lastWritten \in {rec.lastWritten, rec.lastWritten + 1}
          /\ rec'.shots > rec.shots => rec.lastWritten = rec.shots
          /\ rec.needDrain =>
                 /\ rec'.stdin.writes = rec.stdin.writes
                 /\ rec'.shots = rec.shots
                 /\ rec'.writtenFrames > rec.writtenFrames => ~rec'.needDrain]_vars

\* A recording under backpressure has written captured frames and duplicates,
\* each write awaited, the frame captured last being the one written last.
C35_Witness ==
    /\ rec.pc = "endStdin"
    /\ rec.cfg.drainMs = 15
    /\ rec.shots > 3
    /\ rec.stdin.writes > rec.shots
    /\ rec.lastWritten = rec.shots
    /\ ~rec.needDrain

----------------------------------------------------------------------------
(* nextStep() and the step keys *)

\* The keys nextStep() was called at are all different.
NoKeyAdvancedTwice ==
    \A i, j \in DOMAIN rec.nextKeys : i # j => rec.nextKeys[i] # rec.nextKeys[j]

\* C36: in a recording nextStep() is called at most once at any step key;
\* each call follows at once a step-info read that returned the key of the
\* step the page is in, and between two calls a step-info read has returned a
\* key other than that of the first.
C36_NextStepOncePerKey ==
    /\ [](NoKeyAdvancedTwice /\ Len(rec.nextKeys) = rec.nextCalls)
    /\ [][/\ rec'.pc = "nextStep" =>
                 /\ rec.pc = "readStep"
                 /\ rec'.previousStamp = rec'.dwellKeys[Len(rec'.dwellKeys)]
                 /\ rec'.previousStamp = getStepKey(rec'.step)
          /\ rec'.nextCalls > rec.nextCalls =>
                 /\ rec.pc = "nextStep"
                 /\ rec'.nextCalls = rec.nextCalls + 1
                 /\ rec'.nextKeys[rec'.nextCalls] = rec.previousStamp
                 /\ rec.nextCalls > 0 => rec.previousStamp # rec.nextKeys[rec.nextCalls]
          /\ (rec.pc = "checkStep" /\ rec'.pc = "tail") =>
                 getStepKey(rec'.step) # rec.nextKeys[rec.nextCalls]
          /\ (rec.nextCalls > 0 /\ rec'.pc = "readStep") =>
                 rec.pc \in {"tail", "settle", "dwell"}]_vars

\* nextStep() was called at (1,0) and at (1,1) of slides 1-2, once each.
C36_Witness ==
    /\ rec.pc = "done"
    /\ rec.nextKeys = <<<<1, 0>>, <<1, 1>>>>
    /\ rec.dwellKeys = <<<<1, 0>>, <<1, 1>>, <<2, 0>>>>
    /\ rec.cfg.bridge = "late"

----------------------------------------------------------------------------
(* The tree of the table of contents *)

\* The items of a tree, each before its children and these before the next.
RECURSIVE Preorder(_)
Preorder(tree) ==
    IF tree = <<>> THEN <<>>
    ELSE <<[no |-> Head(tree).no, hideInToc |-> Head(tree).hideInToc]>>
         \o Preorder(Head(tree).children) \o Preorder(Tail(tree))

\* Every item of the tree, at its depth, is where the test of addToTree puts
\* it: below a parent only with a title level above the parent's depth and
\* above the parent's title level, and after a sibling only when it does not
\* go below that sibling.
RECURSIVE PlacedByRule(_, _, _)
PlacedByRule(tree, depth, above) ==
    \A i \in 1..Len(tree) :
        /\ tree[i].level = depth
        /\ depth > 1 => (tree[i].titleLevel > depth - 1 /\ above < tree[i].titleLevel)
        /\ i > 1 => ~(tree[i].titleLevel > depth /\ tree[i - 1].titleLevel < tree[i].titleLevel)
        /\ PlacedByRule(tree[i].children, depth + 1, tree[i].titleLevel)

\* The titled slides among the first n, in their order, with their flags.
RECURSIVE TitledUpTo(_, _)
TitledUpTo(slides, n) ==
    IF n = 0 THEN <<>>
    ELSE TitledUpTo(slides, n - 1)
         \o (IF slides[n].title # ""
             THEN <<[no |-> n - 1, hideInToc |-> slides[n].hideInToc]>> ELSE <<>>)

\* C37: a titled slide goes below the last item of a depth if and only if its
\* title level is above that depth, the item exists and the item's title
\* level is strictly smaller, and joins the depth otherwise; every titled
\* slide, one with hideInToc too, flagged, is in the tree exactly once, and
\* the tree read in pre-order lists the slides in their order.
C37_TreePlacesEveryTitledSlide ==
    /\ [](calc.pc \in {"reduce", "outlined"} =>
             /\ Preorder(calc.tocTree) = TitledUpTo(calc.slides, calc.next - 1)
             /\ PlacedByRule(calc.tocTree, 1, 0))
    /\ [][(calc.pc = "reduce" /\ calc'.pc = "reduce") =>
             LET slide == calc.slides[calc.next]
                 last == calc.tocTree[Len(calc.tocTree)]
             IN  IF slide.title = "" THEN calc'.tocTree = calc.tocTree
                 ELSE IF slide.level > 1 /\ calc.tocTree # <<>>
                         /\ last.titleLevel < slide.level
                      THEN /\ Len(calc'.tocTree) = Len(calc.tocTree)
                           /\ Len(Preorder(calc'.tocTree[Len(calc.tocTree)].children))
                                  = Len(Preorder(last.children)) + 1
                      ELSE /\ Len(calc'.tocTree) = Len(calc.tocTree) + 1
                           /\ calc'.tocTree[Len(calc'.tocTree)].no = calc.next - 1
                           /\ calc'.tocTree[Len(calc'.tocTree)].level = 1]_vars

\* Titles at levels 1, 3 (hidden) and 2: the second goes below the first, the
\* third below the first and beside the second.
C37_Witness ==
    /\ calc.pc = "outlined"
    /\ Len(calc.slides) = 3
    /\ calc.slides[2].hideInToc
    /\ Len(calc.tocTree) = 1
    /\ Len(calc.tocTree[1].children) = 2
    /\ calc.tocTree[1].children[1].titleLevel = 3
    /\ calc.tocTree[1].children[1].hideInToc
    /\ calc.tocTree[1].children[2].titleLevel = 2
    /\ calc.tocTree[1].children[2].level = 2

----------------------------------------------------------------------------
(* The export page: the MP4 button and the download *)

\* A flow of the page is waiting for the service.
FlowBusy(flow) == client[flow].pc \in {"post", "query", "poll"}

\* C39: whenever the polling of a job has ended, on done, on error, on a 404,
\* on another answer that is not OK or on a failed fetch, in mp4() and after
\* onMounted, and the page waits for nothing more, videoExporting is false.
C39_ExportingFalseAfterPolling ==
    (client.reply.flow # "none" /\ ~FlowBusy("mount") /\ ~FlowBusy("mp4")) =>
        ~client.videoExporting

\* C40: however the status query of onMounted and an export started by mp4()
\* interleave, videoDownloadReady is true only while videoExportJobId names a
\* job last known to be done, and videoExporting stays true while the job of
\* mp4() is being polled.
C40_ReadyOnlyForDoneJob ==
    /\ client.videoDownloadReady =>
           /\ client.videoExportJobId # ""
           /\ client.known[client.videoExportJobId] = "done"
    /\ client.mp4.pc = "poll" => client.videoExporting

====
